---- MODULE Spec2Model ----
(***************************************************************************)
(* A model of energia: the idleness controller, the sequencer and the     *)
(* environment controller (src/src/control), the actor framework          *)
(* (src/src/armaf) and the effectors (src/src/system).                     *)
(*                                                                         *)
(* The specifications of the module:                                       *)
(*   SpecIC     the idleness controller, driven by an arbitrary stream of  *)
(*              Idle / Awakened requests on its port;                      *)
(*   SpecSeq    the sequencer with the display server, the clock, its      *)
(*              command port and a child actor behind child_port;          *)
(*   SpecEnv    the environment controller and its schedule swaps;         *)
(*   SpecArmaf  an actor's task, its channel and the holders of its port  *)
(*              (FairArmaf: the same with the tasks scheduled fairly);     *)
(*   SpecEff    an effector's actor and the resource it controls.          *)
(* Every variable belongs to one of them; the other specifications leave   *)
(* it unchanged.                                                           *)
(***************************************************************************)
EXTENDS Integers, Sequences, FiniteSets, TLC

VARIABLES
    \* ---- idleness controller (struct IdlenessController) ----
    action_bunches,          \* Vec<Vec<Action>>
    current_bunch,           \* usize
    rollback_stack,          \* Vec<EffectorPort>
    reconciliation_bunches,  \* ReconciliationBunches {execute, rollback, skip_effects}
    ic_state,                \* "new" (spawned, initialize not run) | "running"
    \* ---- history of the idleness controller's traffic ----
    sent,                    \* effector messages sent since the last Awakened was handled
    last,                    \* the request handled last, and what the controller saw
    idle_seen,               \* an Idle request was handled since the last Awakened
    lifetime,                \* the skip set given to new, and whether an Awakened was handled
    \* ---- sequencer (struct Sequencer) ----
    timeout_sequence,        \* Vec<u64>, seconds
    current_position,        \* usize
    initial_position_dirty,  \* bool
    original_timeout,        \* Option<i16>
    elapsed,                 \* seconds since position_changed_at
    sleep_left,              \* seconds until the pinned sleep future is due, 0 = due
    seq_pc,                  \* where the sequencer's task stands
    pending,                 \* the request change_position_and_notify awaits, if any
    \* ---- what surrounds the sequencer ----
    ds_timeout,              \* the display server's idleness timeout
    host_state,              \* value of the display server's watch channel
    host_changed,            \* the value has not been seen by state_channel yet
    command_port,            \* "open" | "dropped": the ActorPort<GetRunningTime, ..>
    child,                   \* "running" | "terminated": the actor behind child_port
    \* ---- history of the sequencer ----
    reply,                   \* answer of the GetRunningTime served in the last step
    step,                    \* the loop iteration completed in the last step
    accepted_position,       \* position after the last message the child accepted
    cycle,                   \* Idle messages sent since the host's Idle at position 0
    sleep_fresh,             \* the sleep future was set since the position last changed
    teardown_write,          \* timeout tear_down asked the display server to set
    \* ---- environment controller (struct EnvironmentController) ----
    config,                  \* battery.low_battery_percentage of the configuration, if any
    sequences,               \* HashMap<ScheduleType, Sequence>
    low_power_treshold,      \* Option<u64>
    power_status,            \* value of the power status watch channel
    schedule_type,           \* main_loop's schedule_type
    sequence,                \* main_loop's sequence
    reconciliation_context,  \* main_loop's reconciliation_context
    env_pc,                  \* where the environment controller's task stands
    \* ---- history of the environment controller ----
    swap,                    \* the arguments of the last ReconciliationContext::calculate
    \* ---- an actor behind an ActorPort (armaf) ----
    actor_kind,              \* "server": task of spawn_server / spawn_actor; "raw": a task
                             \* that owns the ActorReceiver itself
    actor_pc,                \* where the actor's task stands
    initialization,          \* what the task sent on the initialization channel
    spawn_result,            \* what spawn_server returned to its caller
    clones,                  \* per client: its clone of the ActorPort
    mailbox,                 \* the mpsc channel: requests sent and not yet received
    handling,                \* the request the actor took from the channel, 0 = none
    requests,                \* every request made, in the order of its send
    waiting,                 \* per client: the request whose answer it awaits, 0 = none
    \* ---- history of the actor ----
    hooks,                   \* the hooks the task has called, in order
    \* ---- an effector (src/src/system) and the resource it controls ----
    eff_kind,                \* "brightness" | "dpms" | "session" | "lock"
    eff_pc,                  \* where the effector's task stands
    eff,                     \* the fields of the effector's actor
    resource,                \* what the controllers and proxies of the effector reach
    should_fail,             \* the controller fails every call (set_failure_mode)
    \* ---- history of the effector ----
    eff_initial,             \* the resource before initialize
    eff_last                 \* the message handled last, its answer and what preceded it

icVars == <<action_bunches, current_bunch, rollback_stack, reconciliation_bunches,
            ic_state, sent, last, idle_seen, lifetime>>

seqVars == <<timeout_sequence, current_position, initial_position_dirty,
             original_timeout, elapsed, sleep_left, seq_pc, pending,
             ds_timeout, host_state, host_changed, command_port, child,
             reply, step, accepted_position, cycle, sleep_fresh, teardown_write>>

envVars == <<config, sequences, low_power_treshold, power_status, schedule_type,
             sequence, reconciliation_context, env_pc, swap>>

armafVars == <<actor_kind, actor_pc, initialization, spawn_result, clones, mailbox,
               handling, requests, waiting, hooks>>

effVars == <<eff_kind, eff_pc, eff, resource, should_fail, eff_initial, eff_last>>

(* The sleep sensor (src/src/system/sleep_sensor.rs) *)
VARIABLES
    ss_pc,                   \* where the sensor's task stands
    delay_handle,            \* _delay_handle: the delay inhibitor is held
    max_delay_time,          \* inhibit_delay_max of the host, in ticks
    subscribers,             \* subscriber -> what it did with the notification
    confirmations,           \* ReadyToSleep messages queued in the channel
    expected_confirmations,
    received_confirmations,
    now,                     \* ticks since the last preparing-to-sleep signal
    deadline,                \* when the pinned timeout fires
    should_terminate,        \* the sensor's handle was dropped
    ss_result                \* how the last wait_for_sleep ended

sleepVars == <<ss_pc, delay_handle, max_delay_time, subscribers, confirmations,
               expected_confirmations, received_confirmations, now, deadline,
               should_terminate, ss_result>>

(* The effector inventory (src/src/control/effector_inventory.rs) *)
VARIABLES
    inv_pc,                  \* "running" | "stopped"
    running_effectors,       \* name -> the stored port, None when absent
    spawned_effectors,       \* the effector actors spawned so far, in order
    spawn_attempts,          \* calls of spawn_effector so far
    inv_last                 \* the last Get and its answer

invVars == <<inv_pc, running_effectors, spawned_effectors, spawn_attempts, inv_last>>

(* The shutdown of the program (src/src/main.rs) *)
VARIABLES
    main_pc,                 \* 0: waits for the signal; k: awaits the k-th shutdown
    tasks,                   \* task -> "running" | "swapping" | "terminating" | "stopped"
    inventory_ports,         \* the holders of a port of the inventory
    effector_ports,          \* effector -> the holders of a port of it
    effector_actors,         \* effector -> "absent" | "running" | "torn_down"
    draining                 \* the effector whose shutdown tear_down awaits

mainVars == <<main_pc, tasks, inventory_ports, effector_ports, effector_actors, draining>>

sysVars == <<sleepVars, invVars, mainVars>>

vars == <<icVars, seqVars, envVars, armafVars, effVars, sysVars>>

-----------------------------------------------------------------------------
(* Bounds of the model *)

\* Longest sequence of action bunches given to an idleness controller.
MaxBunches == 2

\* Subscribers of the sleep sensor's broadcast channel.
MaxSubscribers == 2

\* Largest inhibit_delay_max of the host, in ticks.
MaxDelayTime == 2

\* Calls of spawn_effector by one inventory.
MaxSpawns == 3

-----------------------------------------------------------------------------
(* Option<T> *)

None == [some |-> FALSE, val |-> <<>>]
Some(v) == [some |-> TRUE, val |-> v]

RECURSIVE Rev(_)
Rev(s) == IF s = <<>> THEN <<>> ELSE Append(Rev(Tail(s)), Head(s))

RECURSIVE SeqsUpTo(_, _)
\* all sequences over S of length 1..n
SeqsUpTo(S, n) ==
    IF n = 0 THEN {}
    ELSE LET shorter == SeqsUpTo(S, n - 1)
         IN  {<<x>> : x \in S} \cup shorter \cup
             {Append(s, x) : s \in shorter, x \in S}

Range(s) == {s[i] : i \in 1..Len(s)}

-----------------------------------------------------------------------------
(* Data of the idleness controller *)

\* struct Action {effect: Effect{name, inhibited_by, rollback_strategy}, recipient}
Action(name, port, strategy, inhibited_by) ==
    [name |-> name, recipient |-> port, rollback_strategy |-> strategy,
     inhibited_by |-> inhibited_by]

EffectorPorts == {"e1", "e2"}

\* The bunches a sequence is built from.
BunchPool ==
    { << Action("dim", "e1", "OnActivity", <<"Idle">>),
         Action("hint", "e2", "Immediate", <<>>) >>,
      << Action("sleep", "e2", "Immediate", <<"Sleep">>),
         Action("lock", "e1", "None", <<>>) >>,
      << Action("idle_hint", "e2", "OnActivity", <<>>),
         Action("off", "e1", "OnActivity", <<"Sleep", "Idle", "Sleep">>) >> }

\* a schedule names an effect once: no bunch comes twice in a sequence
BunchSequences ==
    {s \in SeqsUpTo(BunchPool, MaxBunches) :
        \A i, j \in 1..Len(s) : i # j => s[i] # s[j]}

\* names of effects the replaced controller has applied and the new sequence
\* still holds: ReconciliationBunches::skip_effects
SkipChoices == { {}, {"dim", "sleep", "off"} }

\* ReconciliationBunches handed to a controller that replaces another one.
ReconciliationChoices ==
    { [execute |-> e, rollback |-> r, skip_effects |-> s] :
        e \in {None, Some(<< Action("catch_up", "e2", "OnActivity", <<"Sleep">>) >>)},
        r \in {None, Some(<<"e1", "e2">>)},
        s \in SkipChoices }

\* logind inhibitors the inhibition sensor may report.
Inhibitor(mode, what) == [mode |-> mode, what |-> what]

InhibitorPool ==
    { Inhibitor("Block", {"Sleep", "Shutdown"}),
      Inhibitor("Delay", {"Idle", "Sleep"}) }

\* One query of the inhibition sensor: the inhibitors that exist on the host,
\* and whether the query succeeds (the controller sees them only if it does).
SensorAnswers == [ok : BOOLEAN, inhibitors : SUBSET InhibitorPool]

-----------------------------------------------------------------------------
(* Effector traffic: one entry per message the controller sends to a port *)

\* phase: "init" | "idle" | "wakeup"; src says which vector a Rollback came from
Execute(action, ok) ==
    [port |-> action.recipient, msg |-> "Execute", name |-> action.name,
     strategy |-> action.rollback_strategy, ok |-> ok, src |-> "bunch"]

Rollback(port, src) ==
    [port |-> port, msg |-> "Rollback", name |-> "-", strategy |-> "-", ok |-> TRUE,
     src |-> src]

\* What `last` records of a handled request: the message, whether it was
\* answered Ok, the sensor query made for it (if asked), and the controller's
\* bunch index, pending reconciliation execute list, history length and
\* idle_seen flag from before the request.
Handled(msg, ok, asked, answer, bunch, execute, from, seen) ==
    [msg |-> msg, ok |-> ok, asked |-> asked, answer |-> answer, bunch |-> bunch,
     execute |-> execute, from |-> from, idle_seen |-> seen]

NotAsked == [ok |-> TRUE, inhibitors |-> {}]

NoRequest == Handled("none", TRUE, FALSE, NotAsked, 0, None, 0, FALSE)

-----------------------------------------------------------------------------
(* Pure parts of the idleness controller *)

\* rollback_all: pops the vector from its end and sends Rollback to each port;
\* the value is the order in which the ports receive the message.
rollback_all_fifo(rollback_vec) == rollback_vec

rollback_all_keeps_first(rollback_vec) ==
    IF rollback_vec = <<>> THEN <<>> ELSE Rev(Tail(rollback_vec))

rollback_all(rollback_vec) == Rev(rollback_vec)

RollbackLog(rollback_vec, src) ==
    LET order == rollback_all(rollback_vec)
    IN  [i \in 1..Len(order) |-> Rollback(order[i], src)]

RECURSIVE dedup_inhibit_types(_)
\* keeps the first occurrence of every type, in order
dedup_inhibit_types(duplicated) ==
    IF duplicated = <<>> THEN <<>>
    ELSE LET front == SubSeq(duplicated, 1, Len(duplicated) - 1)
             t == duplicated[Len(duplicated)]
             deduped == dedup_inhibit_types(front)
         IN  IF t \in Range(deduped) THEN deduped ELSE Append(deduped, t)

find_inhibitors_with_type(inhibitors, inhibit_type) ==
    {i \in inhibitors : inhibit_type \in i.what}

\* get_inhibitors: a failed query counts as no inhibitors; Delay ones are dropped
get_inhibitors_any_mode(answer) ==
    IF answer.ok THEN answer.inhibitors ELSE {}

get_inhibitors(answer) ==
    IF answer.ok THEN {i \in answer.inhibitors : i.mode = "Block"} ELSE {}

RECURSIVE FlatInhibitedBy(_)
\* flat_map(|e| e.effect.inhibited_by) over a list of actions
FlatInhibitedBy(actions) ==
    IF actions = <<>> THEN <<>>
    ELSE Head(actions).inhibited_by \o FlatInhibitedBy(Tail(actions))

\* the inhibit types looked at for the upcoming bunch: those of the bunch at
\* index `bunch` (0-based) chained with those of a pending reconciliation
\* execute list
upcoming_inhibition_types(bunches, bunch, execute) ==
    dedup_inhibit_types(
        FlatInhibitedBy(bunches[bunch + 1] \o (IF execute.some THEN execute.val ELSE <<>>)))

is_current_bunch_inhibited(bunches, bunch, execute, answer) ==
    LET inhibitors == get_inhibitors(answer)
        types == upcoming_inhibition_types(bunches, bunch, execute)
    IN  \E k \in 1..Len(types) : find_inhibitors_with_type(inhibitors, types[k]) # {}

\* a mistaken take: the list is read but left in place
take_leaves(option) == option

\* Option::take: what is left behind in the field
take(option) == None

\* a mistaken test: the skip set is never looked at
is_skipped_never(action, skip_effects) == FALSE

\* handle_idleness: is the action passed over because of the skip set?
is_skipped(action, skip_effects) == action.name \in skip_effects

\* RollbackStrategy::None, "Do not roll back the effect": nothing is recorded
strategy_none(action, acc) == acc

\* a mistaken match: an Immediate action is unwound on activity as well
record_for_rollback_on_stack(action, acc) ==
    CASE action.rollback_strategy \in {"OnActivity", "Immediate"} ->
             [acc EXCEPT !.stack = Append(@, action.recipient)]
      [] OTHER -> acc

\* the match on the rollback strategy of an action whose Execute succeeded
record_for_rollback(action, acc) ==
    CASE action.rollback_strategy = "OnActivity" ->
             [acc EXCEPT !.stack = Append(@, action.recipient)]
      [] action.rollback_strategy = "Immediate" ->
             [acc EXCEPT !.immediate = Append(@, action.recipient)]
      [] OTHER -> strategy_none(action, acc)

\* a mistaken error branch: the failed action is recorded all the same
execute_failed_recorded(action, acc) == record_for_rollback(action, acc)

\* the error branch of the loop: log and `continue`
execute_failed(action, acc) == acc

RECURSIVE ApplyFrom(_, _, _, _)
\* the loop of handle_idleness over the chained actions, from index i on:
\* acc = [stack, immediate, log, skip]; an action named in skip is passed over
ApplyFrom(actions, oks, i, acc) ==
    IF i > Len(actions) THEN acc
    ELSE LET a == actions[i]
             logged == [acc EXCEPT !.log = Append(@, Execute(a, oks[i]))]
         IN  IF is_skipped(a, acc.skip)
             THEN ApplyFrom(actions, oks, i + 1, acc)
             ELSE IF ~oks[i]
             THEN ApplyFrom(actions, oks, i + 1, execute_failed(a, logged))
             ELSE ApplyFrom(actions, oks, i + 1, record_for_rollback(a, logged))

\* the history window restarts with the first request after an Awakened
Window == IF last.msg = "Awakened" THEN <<>> ELSE sent

-----------------------------------------------------------------------------
(* The idleness controller: one action per request it handles *)

\* SpecIC runs an idleness controller on its own port: no sequencer is built
SleepAbsent ==
    /\ ss_pc = "absent"
    /\ delay_handle = FALSE
    /\ max_delay_time = 0
    /\ subscribers = <<>>
    /\ confirmations = 0
    /\ expected_confirmations = 0
    /\ received_confirmations = 0
    /\ now = 0
    /\ deadline = 0
    /\ should_terminate = FALSE
    /\ ss_result = "none"

InvAbsent ==
    /\ inv_pc = "absent"
    /\ running_effectors = <<>>
    /\ spawned_effectors = <<>>
    /\ spawn_attempts = 0
    /\ inv_last = <<>>

MainAbsent ==
    /\ main_pc = 0
    /\ tasks = <<>>
    /\ inventory_ports = {}
    /\ effector_ports = <<>>
    /\ effector_actors = <<>>
    /\ draining = "none"

SysAbsent == SleepAbsent /\ InvAbsent /\ MainAbsent

EffAbsent ==
    /\ eff_kind = "absent"
    /\ eff_pc = "absent"
    /\ eff = <<>>
    /\ resource = <<>>
    /\ should_fail = FALSE
    /\ eff_initial = <<>>
    /\ eff_last = <<>>

ArmafAbsent ==
    /\ actor_kind = "absent"
    /\ actor_pc = "absent"
    /\ initialization = "none"
    /\ spawn_result = "none"
    /\ clones = <<>>
    /\ mailbox = <<>>
    /\ handling = 0
    /\ requests = <<>>
    /\ waiting = <<>>
    /\ hooks = <<>>

SeqAbsent ==
    /\ timeout_sequence = <<>>
    /\ current_position = 0
    /\ initial_position_dirty = FALSE
    /\ original_timeout = None
    /\ elapsed = 0
    /\ sleep_left = 0
    /\ seq_pc = "absent"
    /\ pending = None
    /\ ds_timeout = 0
    /\ host_state = "Awakened"
    /\ host_changed = FALSE
    /\ command_port = "dropped"
    /\ child = "running"
    /\ reply = None
    /\ step = None
    /\ accepted_position = 0
    /\ cycle = None
    /\ sleep_fresh = FALSE
    /\ teardown_write = None

\* SpecIC and SpecSeq run without an environment controller
EnvAbsent ==
    /\ config = None
    /\ sequences = <<>>
    /\ low_power_treshold = None
    /\ power_status = None
    /\ schedule_type = "-"
    /\ sequence = <<>>
    /\ reconciliation_context = None
    /\ env_pc = "absent"
    /\ swap = None

\* IdlenessController::new, before spawn_server has run initialize
InitIC ==
    /\ SysAbsent
    /\ action_bunches \in BunchSequences
    /\ current_bunch \in 0..Len(action_bunches)
    /\ reconciliation_bunches \in ReconciliationChoices
    /\ rollback_stack = <<>>
    /\ ic_state = "new"
    /\ sent = <<>>
    /\ last = NoRequest
    /\ idle_seen = FALSE
    /\ lifetime = [skip_effects |-> reconciliation_bunches.skip_effects,
                   awakened |-> FALSE]
    /\ SeqAbsent
    /\ EnvAbsent
    /\ ArmafAbsent
    /\ EffAbsent

\* a mistaken test: the list is unwound wherever the controller starts
unwinds_at_start_anywhere(bunch, rollback) == rollback.some

\* initialize: is the reconciliation rollback list unwound at once?
unwinds_at_start(bunch, rollback) == bunch = 0 /\ rollback.some

\* Server::initialize
initialize ==
    /\ ic_state = "new"
    /\ ic_state' = "running"
    /\ IF unwinds_at_start(current_bunch, reconciliation_bunches.rollback)
       THEN /\ sent' = sent \o RollbackLog(reconciliation_bunches.rollback.val, "init")
            /\ reconciliation_bunches' = [reconciliation_bunches EXCEPT !.rollback = take(@)]
       ELSE UNCHANGED <<sent, reconciliation_bunches>>
    /\ UNCHANGED <<action_bunches, current_bunch, rollback_stack, last, idle_seen,
                   lifetime>>
    /\ UNCHANGED <<seqVars, envVars, armafVars, effVars, sysVars>>

\* handle_message(SystemState::Idle) = handle_idleness.  `answer` is what the
\* inhibition sensor replies, oks[i] whether the i-th Execute is answered Ok.
handle_idleness(answer, oks) ==
    /\ ic_state = "running"
    /\ idle_seen' = TRUE
    /\ IF current_bunch = Len(action_bunches)
       THEN \* "No more action bunches to execute."
            /\ last' = Handled("Idle", FALSE, FALSE, NotAsked, current_bunch,
                                reconciliation_bunches.execute, Len(Window), idle_seen)
            /\ sent' = Window
            /\ UNCHANGED <<current_bunch, rollback_stack, reconciliation_bunches>>
       ELSE IF is_current_bunch_inhibited(action_bunches, current_bunch,
                                          reconciliation_bunches.execute, answer)
       THEN \* "Upcoming bunch is inhibited"
            /\ last' = Handled("Idle", FALSE, TRUE, answer, current_bunch,
                                reconciliation_bunches.execute, Len(Window), idle_seen)
            /\ sent' = Window
            /\ UNCHANGED <<current_bunch, rollback_stack, reconciliation_bunches>>
       ELSE LET reconciliation == IF reconciliation_bunches.execute.some
                                  THEN reconciliation_bunches.execute.val ELSE <<>>
                actions == reconciliation \o action_bunches[current_bunch + 1]
                done == ApplyFrom(actions, oks, 1,
                            [stack |-> rollback_stack, immediate |-> <<>>, log |-> <<>>,
                             skip |-> reconciliation_bunches.skip_effects])
            IN  /\ Len(oks) = Len(actions)
                /\ rollback_stack' = done.stack
                /\ sent' = Window \o done.log \o RollbackLog(done.immediate, "immediate")
                /\ reconciliation_bunches' =
                       [reconciliation_bunches EXCEPT !.execute = take(@)]
                /\ current_bunch' = current_bunch + 1
                /\ last' = Handled("Idle", TRUE, TRUE, answer, current_bunch,
                                    reconciliation_bunches.execute, Len(Window), idle_seen)
    /\ UNCHANGED <<action_bunches, ic_state, lifetime>>
    /\ UNCHANGED <<seqVars, envVars, armafVars, effVars, sysVars>>

\* a mistaken order: the rollback stack is unwound before the list
wakeup_rollbacks_stack_first(reconciliation, stack) ==
    RollbackLog(stack, "stack") \o RollbackLog(reconciliation, "reconciliation")

\* handle_wakeup: the Rollback messages it sends, in order
wakeup_rollbacks(reconciliation, stack) ==
    RollbackLog(reconciliation, "reconciliation") \o RollbackLog(stack, "stack")

\* handle_message(SystemState::Awakened) = handle_wakeup
handle_wakeup ==
    /\ ic_state = "running"
    /\ LET reconciliation == IF reconciliation_bunches.rollback.some
                             THEN reconciliation_bunches.rollback.val ELSE <<>>
       IN  sent' = Window \o wakeup_rollbacks(reconciliation, rollback_stack)
    /\ reconciliation_bunches' = [reconciliation_bunches EXCEPT !.rollback = take(@),
                                                                !.skip_effects = {}]
    /\ rollback_stack' = <<>>
    /\ current_bunch' = 0
    /\ last' = Handled("Awakened", TRUE, FALSE, NotAsked, current_bunch,
                        reconciliation_bunches.execute, Len(Window), idle_seen)
    /\ idle_seen' = FALSE
    /\ lifetime' = [lifetime EXCEPT !.awakened = TRUE]
    /\ UNCHANGED <<action_bunches, ic_state>>
    /\ UNCHANGED <<seqVars, envVars, armafVars, effVars, sysVars>>

\* the inputs handle_idleness consumes in the current state: the sensor is
\* asked only when a bunch is left, and one Execute answer is needed for every
\* action of a bunch that is applied
AnswersAsked ==
    IF current_bunch = Len(action_bunches)
    THEN {NotAsked}
    ELSE SensorAnswers

\* the i-th of the chained actions is passed over: no answer is consumed for it
NotExecuted(i) ==
    LET reconciliation == IF reconciliation_bunches.execute.some
                          THEN reconciliation_bunches.execute.val ELSE <<>>
        actions == reconciliation \o action_bunches[current_bunch + 1]
    IN  is_skipped(actions[i], reconciliation_bunches.skip_effects)

ExecutesSent(answer) ==
    IF current_bunch = Len(action_bunches)
       \/ is_current_bunch_inhibited(action_bunches, current_bunch,
                                     reconciliation_bunches.execute, answer)
    THEN 0
    ELSE Len(action_bunches[current_bunch + 1])
         + (IF reconciliation_bunches.execute.some
            THEN Len(reconciliation_bunches.execute.val) ELSE 0)

HandleIdle ==
    \E answer \in AnswersAsked :
        \E oks \in [1..ExecutesSent(answer) -> BOOLEAN] :
            /\ \A i \in 1..ExecutesSent(answer) : NotExecuted(i) => oks[i]
            /\ handle_idleness(answer, oks)

NextIC ==
    \/ initialize
    \/ HandleIdle
    \/ handle_wakeup

SpecIC == InitIC /\ [][NextIC]_vars

-----------------------------------------------------------------------------
(* Claims about the idleness controller, checked under SpecIC *)

\* number of entries of a history that satisfy Test
Count(log, Test(_)) == Cardinality({i \in 1..Len(log) : Test(log[i])})

\* the ports of the entries of a history that satisfy Test, in order
PortsOf(log, Test(_)) ==
    LET kept == SelectSeq(log, Test) IN [i \in 1..Len(kept) |-> kept[i].port]

\* the entries sent while the request recorded in `last` was handled
SentByLast == SubSeq(sent, last.from + 1, Len(sent))

\* an Awakened has just been handled, and at least one Idle came before it
\* since the previous Awakened
AfterIdleThenAwakened == last.msg = "Awakened" /\ last.idle_seen

IsRollback(e) == e.msg = "Rollback" /\ e.src # "init"
IsOnActivityExecute(e) == e.msg = "Execute" /\ e.strategy = "OnActivity"
IsAppliedOnActivity(e) == e.msg = "Execute" /\ e.strategy = "OnActivity" /\ e.ok
IsStackRollback(e) == e.msg = "Rollback" /\ e.src = "stack"

\* C1 as stated: after Idle(s) followed by Awakened every port has received as
\* many Rollback messages as Execute messages of OnActivity actions.
C1_Original ==
    AfterIdleThenAwakened =>
        \A p \in EffectorPorts :
            LET ToP(e) == e.port = p
                RollbacksToP(e) == IsRollback(e) /\ ToP(e)
                ExecutesToP(e) == IsOnActivityExecute(e) /\ ToP(e)
            IN  Count(sent, RollbacksToP) = Count(sent, ExecutesToP)

\* C1 amended: after Idle(s) followed by Awakened every port has received as
\* many Rollback messages, those of a reconciliation rollback list not counted,
\* as Execute messages it answered Ok for OnActivity or Immediate actions: the
\* Immediate ones at the end of their bunch, the OnActivity ones from the
\* rollback stack while the Awakened was handled.
C1_RollbackBalance ==
    AfterIdleThenAwakened =>
        \A p \in EffectorPorts :
            LET StackToP(e) == IsStackRollback(e) /\ e.port = p
                ImmediateToP(e) == e.msg = "Rollback" /\ e.src = "immediate" /\ e.port = p
                AppliedOnActivityToP(e) == IsAppliedOnActivity(e) /\ e.port = p
                AppliedImmediateToP(e) ==
                    e.msg = "Execute" /\ e.strategy = "Immediate" /\ e.ok /\ e.port = p
            IN  /\ Count(sent, StackToP) = Count(sent, AppliedOnActivityToP)
                /\ Count(sent, ImmediateToP) = Count(sent, AppliedImmediateToP)
                /\ Count(SentByLast, StackToP) = Count(sent, StackToP)
                /\ Count(SentByLast, ImmediateToP) = 0

\* C1's case: two bunches applied, then Awakened; a port got an OnActivity and
\* an Immediate Execute it answered Ok and one Execute it refused.
C1_Witness ==
    /\ AfterIdleThenAwakened
    /\ last.bunch = 2
    /\ \E p \in EffectorPorts :
          /\ \E i \in 1..Len(sent) : IsAppliedOnActivity(sent[i]) /\ sent[i].port = p
          /\ \E i \in 1..Len(sent) :
                 sent[i].msg = "Execute" /\ sent[i].strategy = "Immediate"
                 /\ sent[i].ok /\ sent[i].port = p
    /\ \E i \in 1..Len(sent) : sent[i].msg = "Execute" /\ ~sent[i].ok

\* C2: once an Awakened is handled, the ports of the OnActivity actions applied
\* since the previous Awakened have been sent Rollback from the rollback stack
\* once each, last applied first, and the rollback stack is empty.
C2_RollbackLifo ==
    last.msg = "Awakened" =>
        /\ PortsOf(SentByLast, IsStackRollback) = Rev(PortsOf(sent, IsAppliedOnActivity))
        /\ PortsOf(sent, IsStackRollback) = PortsOf(SentByLast, IsStackRollback)
        /\ rollback_stack = <<>>

\* C2's case: an Awakened rolled back at least two applied OnActivity actions
\* on different ports.
C2_Witness ==
    /\ last.msg = "Awakened"
    /\ LET applied == PortsOf(sent, IsAppliedOnActivity)
       IN  Len(applied) >= 2 /\ applied[1] # applied[Len(applied)]

\* the inhibit kinds declared by the actions of a list
KindsOf(actions) == UNION {Range(actions[i].inhibited_by) : i \in 1..Len(actions)}

\* a Block-mode inhibitor among `inhibitors` covers one of `kinds`
Blocked(inhibitors, kinds) ==
    \E i \in inhibitors : i.mode = "Block" /\ i.what \cap kinds # {}

\* an Idle has just been handled while a bunch was left to apply
IdleWithUpcomingBunch == last.msg = "Idle" /\ last.bunch < Len(action_bunches)

NoExecuteAndNoAdvance ==
    /\ \A i \in 1..Len(SentByLast) : SentByLast[i].msg # "Execute"
    /\ current_bunch = last.bunch

\* the actions of the bunch applied by the request in `last`, with the
\* reconciliation execute list that was pending in front
ChainedByLast ==
    (IF last.execute.some THEN last.execute.val ELSE <<>>)
        \o action_bunches[last.bunch + 1]

NotInSkipSet(a) == a.name \notin reconciliation_bunches.skip_effects

AppliedAndAdvanced ==
    /\ Len(SelectSeq(SentByLast, LAMBDA e : e.msg = "Execute"))
         = Len(SelectSeq(ChainedByLast, NotInSkipSet))
    /\ current_bunch = last.bunch + 1

\* C3 as stated: the upcoming bunch is applied iff no Block-mode inhibitor
\* that exists covers a kind declared by an action of that bunch.
C3_Original ==
    IdleWithUpcomingBunch =>
        LET blocked == Blocked(last.answer.inhibitors,
                               KindsOf(action_bunches[last.bunch + 1]))
        IN  /\ last.ok <=> ~blocked
            /\ blocked => NoExecuteAndNoAdvance

\* C3 amended: the upcoming bunch is applied iff no Block-mode inhibitor that
\* the inhibition sensor reports (none when the query fails) covers a kind
\* declared by an action of that bunch or of the pending reconciliation execute
\* list; Delay-mode inhibitors never block; when blocked, no Execute is sent,
\* the bunch index is unchanged and the Idle request is answered with an error.
C3_InhibitionFilter ==
    IdleWithUpcomingBunch =>
        LET reported == IF last.answer.ok THEN last.answer.inhibitors ELSE {}
            kinds == KindsOf(action_bunches[last.bunch + 1])
                     \cup (IF last.execute.some THEN KindsOf(last.execute.val) ELSE {})
            blocked == Blocked(reported, kinds)
        IN  /\ last.ok <=> ~blocked
            /\ blocked => NoExecuteAndNoAdvance
            /\ ~blocked => AppliedAndAdvanced

\* C3's case: an Idle was refused because of a Block inhibitor while a Delay
\* inhibitor covering the bunch was reported as well.
C3_Witness ==
    /\ IdleWithUpcomingBunch
    /\ ~last.ok
    /\ last.answer.ok
    /\ \E i \in last.answer.inhibitors : i.mode = "Delay"
    /\ Blocked(last.answer.inhibitors, KindsOf(action_bunches[last.bunch + 1]))

\* the names of the effects sent Execute in a history, in order
ExecutedNames(log) ==
    LET kept == SelectSeq(log, LAMBDA e : e.msg = "Execute")
    IN  [i \in 1..Len(kept) |-> kept[i].name]

NamesOf(actions) == [i \in 1..Len(actions) |-> actions[i].name]

\* names that only actions of a reconciliation execute list carry
ReconciliationNames ==
    UNION {Range(NamesOf(c.execute.val)) : c \in {d \in ReconciliationChoices : d.execute.some}}

ExecutePending == reconciliation_bunches.execute.some

\* C11: an applied Idle sends Execute to the pending reconciliation actions
\* first and to the actions of its bunch after them, and leaves no list
\* pending; a refused Idle leaves the list as it was; a reconciliation action
\* is sent Execute only by an Idle that found the list pending; and a list
\* once consumed is never pending again.
C11_ExecuteOnce ==
    /\ [](/\ last.msg = "Idle" /\ last.ok =>
                /\ ExecutedNames(SentByLast)
                     = NamesOf(SelectSeq(ChainedByLast, NotInSkipSet))
                /\ ~ExecutePending
          /\ last.msg = "Idle" /\ ~last.ok =>
                /\ reconciliation_bunches.execute = last.execute
                /\ ExecutedNames(SentByLast) = <<>>
          /\ last.msg = "Idle" /\ ~last.execute.some =>
                Range(ExecutedNames(SentByLast)) \cap ReconciliationNames = {})
    /\ [][~ExecutePending => ~ExecutePending']_vars

\* C11's case: an Idle refused for inhibition left the list pending, and the
\* next Idle applied it in front of a bunch that is not the first.
C11_Witness ==
    /\ last.msg = "Idle"
    /\ last.ok
    /\ last.execute.some
    /\ last.idle_seen
    /\ last.from = 0
    /\ last.bunch >= 1
    /\ Len(ExecutedNames(SentByLast)) >= 3
    /\ ExecutedNames(SentByLast)[1] \in ReconciliationNames

IsListRollback(e) == e.msg = "Rollback" /\ e.src \in {"init", "reconciliation"}

RollbackPending == reconciliation_bunches.rollback.some

\* every port has as many entries in the history as in the list of ports
SameCounts(log, ports) ==
    \A p \in EffectorPorts :
        LET ToP(e) == e.port = p
            IsP(q) == q = p
        IN  Count(log, ToP) = Len(SelectSeq(ports, IsP))

\* C12: initialize sends one Rollback to every port of the reconciliation
\* rollback list when the controller starts at bunch 0 and none otherwise; an
\* Awakened that finds the list pending sends one Rollback to every port of
\* it and one that does not sends none; Idle never does; and a list once
\* unwound is never pending again.
C12_RollbackListOnce ==
    /\ [](/\ ic_state = "new" => sent = <<>>
          /\ RollbackPending => SelectSeq(sent, IsListRollback) = <<>>
          /\ last.msg = "Idle" => SelectSeq(SentByLast, IsListRollback) = <<>>
          /\ last.msg = "Awakened" => ~RollbackPending)
    /\ [][/\ ic_state = "new" /\ ic_state' = "running" =>
                IF current_bunch = 0 /\ RollbackPending
                THEN /\ SameCounts(SelectSeq(sent', IsListRollback),
                                   reconciliation_bunches.rollback.val)
                     /\ ~RollbackPending'
                ELSE sent' = <<>> /\ UNCHANGED reconciliation_bunches
          /\ last'.msg = "Awakened" =>
                LET by_this == SubSeq(sent', last'.from + 1, Len(sent'))
                IN  SameCounts(SelectSeq(by_this, IsListRollback),
                               IF RollbackPending
                               THEN reconciliation_bunches.rollback.val ELSE <<>>)
          /\ ~RollbackPending => ~RollbackPending']_vars

\* C12's case: a controller started past bunch 0 has applied a bunch and then
\* unwound the list, two ports long, on its first Awakened.
C12_Witness ==
    /\ last.msg = "Awakened"
    /\ last.idle_seen
    /\ last.bunch >= 2
    /\ Len(SelectSeq(SentByLast, IsListRollback)) = 2
    /\ Len(SelectSeq(SentByLast, IsStackRollback)) >= 1

\* what the step that has just handled a request has sent
SentByStep == SubSeq(sent', last'.from + 1, Len(sent'))

\* in a history, no Rollback of the rollback stack comes before one of the list
ListBeforeStack(log) ==
    \A i \in 1..Len(log) : \A j \in 1..Len(log) :
        IsStackRollback(log[i]) /\ IsListRollback(log[j]) => j < i

\* C13 as stated: an Awakened that finds the reconciliation rollback list
\* pending sends Rollback to its ports first listed first, all of them before
\* any port of the rollback stack.
C13_Original ==
    [][last'.msg = "Awakened" /\ RollbackPending =>
         /\ PortsOf(SentByStep, IsListRollback) = reconciliation_bunches.rollback.val
         /\ ListBeforeStack(SentByStep)]_vars

\* C13: an Awakened that finds the reconciliation rollback list pending sends
\* Rollback to its ports last listed first, all of them before any port of the
\* rollback stack.
C13_ListUnwoundFirst ==
    [][last'.msg = "Awakened" /\ RollbackPending =>
         /\ PortsOf(SentByStep, IsListRollback)
              = Rev(reconciliation_bunches.rollback.val)
         /\ ListBeforeStack(SentByStep)]_vars

\* C13's case: an Awakened has unwound a list of two different ports and then
\* a rollback stack that was not empty.
C13_Witness ==
    /\ last.msg = "Awakened"
    /\ LET listed == PortsOf(SentByLast, IsListRollback)
       IN  Len(listed) = 2 /\ listed[1] # listed[2]
    /\ Len(SelectSeq(SentByLast, IsStackRollback)) >= 2

\* the effect names of the regular bunch applied by the request in `last`
RegularNames == Range(NamesOf(action_bunches[last.bunch + 1]))

\* the skip set in force when the request in `last` was an Idle: the one the
\* controller was constructed with, until it has handled an Awakened
SkipInForce == IF lifetime.awakened THEN {} ELSE lifetime.skip_effects

\* C14: an applied Idle sends Execute to exactly those actions of its regular
\* bunch whose effect name is not in the skip set in force, and advances the
\* bunch index; once an Awakened was handled no skip set is in force.
C14_SkipSet ==
    last.msg = "Idle" /\ last.ok =>
        /\ Range(ExecutedNames(SentByLast)) \cap RegularNames
             = RegularNames \ SkipInForce
        /\ current_bunch = last.bunch + 1

\* C14's case: before any Awakened, a bunch was applied that holds an action
\* named in the skip set and one that is not.
C14_Witness ==
    /\ last.msg = "Idle" /\ last.ok
    /\ ~lifetime.awakened
    /\ RegularNames \cap lifetime.skip_effects # {}
    /\ RegularNames \ lifetime.skip_effects # {}

\* after an Awakened, an action named in the skip set given at construction
\* is sent Execute
AfterAwakenedNothingSkipped ==
    /\ last.msg = "Idle" /\ last.ok
    /\ lifetime.awakened
    /\ Range(ExecutedNames(SentByLast)) \cap lifetime.skip_effects # {}

IsExecute(e) == e.msg = "Execute"
IsAnyRollback(e) == e.msg = "Rollback"
IsAppliedImmediate(e) == e.msg = "Execute" /\ e.strategy = "Immediate" /\ e.ok

\* C15: an applied Idle sends its Rollback messages after its Execute
\* messages, all of them from the vector of Immediate ports and one for every
\* Immediate action whose Execute succeeded; it appends to the rollback stack
\* the ports of the OnActivity actions whose Execute succeeded and nothing
\* else, so an Immediate or None action is not unwound by an Awakened, and
\* the port of a None action is recorded nowhere.
C15_RollbackStrategies ==
    [][last'.msg = "Idle" /\ last'.ok =>
          LET executes == Len(SelectSeq(SentByStep, IsExecute))
              unwound == SelectSeq(SentByStep, IsAnyRollback)
          IN  /\ \A i \in 1..Len(SentByStep) :
                     IsAnyRollback(SentByStep[i]) <=> i > executes
              /\ \A i \in 1..Len(unwound) : unwound[i].src = "immediate"
              /\ SameCounts(unwound, PortsOf(SentByStep, IsAppliedImmediate))
              /\ rollback_stack'
                   = rollback_stack \o PortsOf(SentByStep, IsAppliedOnActivity)]_vars

\* C15's case: one Idle has applied an Immediate action and a None action, a
\* rollback stack holds the port of an OnActivity action, and the Immediate
\* port was sent its Rollback.
C15_Witness ==
    /\ last.msg = "Idle" /\ last.ok
    /\ \E i, j \in 1..Len(SentByLast) :
          /\ IsAppliedImmediate(SentByLast[i])
          /\ SentByLast[j].msg = "Execute" /\ SentByLast[j].strategy = "None"
          /\ SentByLast[j].ok
    /\ Len(SelectSeq(SentByLast, IsAnyRollback)) >= 1
    /\ rollback_stack # <<>>

\* the entries of a history for Execute requests that failed
IsFailedExecute(e) == e.msg = "Execute" /\ ~e.ok

\* C16: an Idle one of whose Execute requests failed is answered Ok and
\* advances the bunch index; it has sent Execute to every chained action that
\* is not skipped, in chain order; and the ports it has recorded for rollback
\* are those of the actions whose Execute succeeded, the failed ones left out.
C16_ErrorsDoNotHalt ==
    [][(/\ last'.msg = "Idle"
        /\ \E i \in 1..Len(SentByStep) : IsFailedExecute(SentByStep[i])) =>
          /\ last'.ok
          /\ current_bunch' = current_bunch + 1
          /\ ExecutedNames(SentByStep) = NamesOf(SelectSeq(ChainedByLast', NotInSkipSet))
          /\ rollback_stack'
               = rollback_stack \o PortsOf(SentByStep, IsAppliedOnActivity)
          /\ PortsOf(SentByStep, IsAnyRollback)
               = Rev(PortsOf(SentByStep, IsAppliedImmediate))]_vars

\* C16's case: the first Execute of an applied bunch failed, for an action
\* that would have been recorded for rollback, and a later one succeeded.
C16_Witness ==
    /\ last.msg = "Idle" /\ last.ok
    /\ LET executed == SelectSeq(SentByLast, IsExecute)
       IN  /\ Len(executed) >= 2
           /\ ~executed[1].ok
           /\ executed[1].strategy \in {"OnActivity", "Immediate"}
           /\ executed[Len(executed)].ok
           /\ executed[Len(executed)].strategy \in {"OnActivity", "Immediate"}


-----------------------------------------------------------------------------
(* Data of the sequencer *)

\* Longest timeout sequence given to a sequencer.
MaxLen == 3

\* Seconds the clock may run on after the position last changed.
MaxElapsed == 3

\* seconds a bunch may wait for, and every sequence of them
TimeoutValues == {1, 2}
TimeoutSequences == SeqsUpTo(TimeoutValues, MaxLen)

\* shorten_initial_sleep_by, seconds
ShortenBy == {0, 1}

\* the idleness timeout the display server has before energia starts
DsInitial == 600

SystemStates == {"Idle", "Awakened"}

\* `as i16` of a u64: the low 16 bits, read as two's complement
ToI16(v) == LET low == v % 65536 IN IF low >= 32768 THEN low - 65536 ELSE low

\* Result of ActorPort::request on child_port: the child's answer,
\* ActorRequestError::Actor, ::Send (receiver closed) or ::Recv (request dropped)
ChildAnswers == {"Ok", "Actor", "Send", "Recv"}

\* the request change_position_and_notify has sent and whose answer it awaits
Request(change, branch, seen, position, dirty) ==
    [change |-> change,
     msg |-> IF change = "Increment" THEN "Idle" ELSE "Awakened",
     original_position |-> position,
     branch |-> branch, seen |-> seen, dirty |-> dirty, forced |-> "no"]

\* one completed iteration of main_loop: the select branch taken, the host state
\* it saw, position and dirtiness before, the message sent to the child, the
\* child's answer and whether force_activity was called ("no" | "ok" | "failed")
Iteration(branch, seen, position, dirty, msg, answer, forced) ==
    [branch |-> branch, seen |-> seen, position |-> position, dirty |-> dirty,
     sent |-> msg, answer |-> answer, forced |-> forced]

NoIteration == Iteration("none", "none", 0, FALSE, "none", "none", "no")

NoCycle == [clean |-> FALSE, since |-> 0, idles |-> <<>>]

-----------------------------------------------------------------------------
(* Pure parts of the sequencer *)

RECURSIVE step_times(_, _)
\* timeout_sequence[0..position].iter().sum()
step_times(t, position) ==
    IF position = 0 THEN 0 ELSE step_times(t, position - 1) + t[position]

\* a mistaken running time: the bunch fired last is not counted
get_running_time_one_short(t, position, since_change) ==
    IF position = 0 THEN 0 ELSE step_times(t, position - 1) + since_change

get_running_time(t, position, since_change) ==
    IF position = 0 THEN 0 ELSE step_times(t, position) + since_change

\* a mistaken guard: position 0 is left to the internal sleep as well
position_handleable_by_sleep_from_zero(t, position, dirty) ==
    position < Len(t) /\ ~dirty

position_handleable_by_sleep(t, position, dirty) ==
    position # 0 /\ position < Len(t) /\ ~dirty

is_terminating_error(e) ==
    CASE e = "PortDropped" -> TRUE
      [] e = "Actor" -> FALSE
      [] e \in {"Send", "Recv"} -> TRUE
      [] OTHER -> FALSE

\* a mistaken restore: the attempted position is kept when the child refuses
refused_position_kept(original_position, attempted) == attempted

\* change_position_and_notify, Err branch: the position the sequencer is left at
refused_position(original_position, attempted) == original_position

\* a mistaken delay: every internal sleep waits for the first timeout
sleep_duration_first(t, position) == t[1]

\* seconds the sleep future is reset to: timeout_sequence[current_position]
sleep_duration(t, position) == t[position + 1]

\* a mistaken recovery: activity is forced everywhere but at position 0
error_forces_activity_elsewhere(position) == position # 0

\* a mistaken recovery: activity is forced after every error of the child
error_forces_activity_always(position) == TRUE

\* main_loop, non-terminating error: is force_activity called?
error_forces_activity(position) == position = 0

\* a mistaken fallback: 0 (never idle) instead of -1 (server default)
restored_timeout_zero(original) == IF original.some THEN original.val ELSE 0

\* tear_down: original_timeout.unwrap_or(-1)
restored_timeout(original) == IF original.some THEN original.val ELSE -1

Max(a, b) == IF a >= b THEN a ELSE b

-----------------------------------------------------------------------------
(* The sequencer: its task, the display server, the clock, its two ports *)

\* SpecSeq runs a sequencer against an arbitrary child: no idleness controller
IcAbsent ==
    /\ action_bunches = <<>>
    /\ current_bunch = 0
    /\ rollback_stack = <<>>
    /\ reconciliation_bunches = [execute |-> None, rollback |-> None,
                                 skip_effects |-> {}]
    /\ ic_state = "absent"
    /\ sent = <<>>
    /\ last = NoRequest
    /\ idle_seen = FALSE
    /\ lifetime = [skip_effects |-> {}, awakened |-> FALSE]

\* Sequencer::new
InitSeq ==
    /\ SysAbsent
    /\ IcAbsent
    /\ EnvAbsent
    /\ ArmafAbsent
    /\ EffAbsent
    /\ timeout_sequence \in TimeoutSequences
    /\ current_position \in 0..Len(timeout_sequence)
    /\ initial_position_dirty = FALSE
    /\ original_timeout = None
    /\ elapsed = 0
    /\ sleep_left = 0
    /\ seq_pc = "new"
    /\ pending = None
    /\ ds_timeout = DsInitial
    /\ host_state \in SystemStates
    /\ host_changed \in BOOLEAN
    /\ command_port = "open"
    /\ child = "running"
    /\ reply = None
    /\ step = NoIteration
    /\ accepted_position = current_position
    /\ cycle = NoCycle
    /\ sleep_fresh = FALSE
    /\ teardown_write = None

Running == seq_pc \in {"select", "await_child", "force_wait"}

initial_timeout_index_zero(position, dirty) == 0

\* initialize: the index of the timeout the display server is given at first
initial_timeout_index(position, dirty) == IF dirty THEN position ELSE 0

\* spawn up to tokio::spawn: initialize.  get_ok, set_ok: does the display
\* server answer get_idleness_timeout / set_idleness_timeout?
spawn(get_ok, set_ok) ==
    /\ seq_pc = "new"
    /\ original_timeout' = IF get_ok THEN Some(ds_timeout) ELSE None
    /\ LET dirty == current_position # 0 /\ host_state = "Awakened"
           index == initial_timeout_index(current_position, dirty)
       IN  /\ initial_position_dirty' = dirty
           /\ IF index >= Len(timeout_sequence)
              THEN \* index out of bounds
                   /\ seq_pc' = "panicked"
                   /\ UNCHANGED ds_timeout
              ELSE IF set_ok
              THEN /\ seq_pc' = "spawned"
                   /\ ds_timeout' = ToI16(timeout_sequence[index + 1])
              ELSE \* "Failed to set initial timeout on the display server"
                   /\ seq_pc' = "failed"
                   /\ UNCHANGED ds_timeout
    /\ reply' = None
    /\ step' = NoIteration
    /\ UNCHANGED <<timeout_sequence, current_position, elapsed, sleep_left, pending,
                   host_state, host_changed, command_port, child,
                   accepted_position, cycle, sleep_fresh, teardown_write>>
    /\ UNCHANGED <<icVars, envVars, armafVars, effVars, sysVars>>

\* main_loop up to its loop: the sleep future is created
main_loop(shorten_initial_sleep_by) ==
    /\ seq_pc = "spawned"
    /\ IF current_position >= Len(timeout_sequence)
       THEN \* index out of bounds
            /\ seq_pc' = "panicked"
            /\ UNCHANGED <<sleep_left, sleep_fresh>>
       ELSE /\ seq_pc' = "select"
            /\ sleep_left' = Max(timeout_sequence[current_position + 1]
                                   - shorten_initial_sleep_by, 0)
            /\ sleep_fresh' = TRUE
    /\ reply' = None
    /\ step' = NoIteration
    /\ UNCHANGED <<timeout_sequence, current_position, initial_position_dirty,
                   original_timeout, elapsed, pending, ds_timeout, host_state,
                   host_changed, command_port, child, accepted_position, cycle,
                   teardown_write>>
    /\ UNCHANGED <<icVars, envVars, armafVars, effVars, sysVars>>

\* main_loop after loop_iteration returned was_state_change (lines 138-155) at
\* `position`; set_ok: does the display server accept the timeout of position 0?
AfterIteration(position, was_state_change, set_ok) ==
    LET undirtied == initial_position_dirty /\ was_state_change /\ set_ok
        dirty == initial_position_dirty /\ ~undirtied
        reset == was_state_change
                 /\ position_handleable_by_sleep(timeout_sequence, position, dirty)
    IN  /\ initial_position_dirty' = dirty
        /\ ds_timeout' = IF undirtied THEN ToI16(timeout_sequence[1]) ELSE ds_timeout
        /\ sleep_left' = IF reset THEN sleep_duration(timeout_sequence, position)
                         ELSE sleep_left
        /\ sleep_fresh' = IF was_state_change THEN reset ELSE sleep_fresh

\* is a branch of the select! in loop_iteration ready?
SleepReady ==
    /\ position_handleable_by_sleep(timeout_sequence, current_position,
                                    initial_position_dirty)
    /\ sleep_left = 0

\* one second passes.  Handlers take no time: the clock stands still while a
\* select! branch is ready or a request to the child is outstanding.
Tick ==
    /\ seq_pc \in {"select", "force_wait"}
    /\ ~host_changed
    /\ seq_pc = "select" => command_port = "open" /\ ~SleepReady
    /\ elapsed < MaxElapsed
    /\ elapsed' = elapsed + 1
    /\ sleep_left' = Max(sleep_left - 1, 0)
    /\ cycle' = IF cycle.clean THEN [cycle EXCEPT !.since = @ + 1] ELSE cycle
    /\ reply' = None
    /\ step' = NoIteration
    /\ UNCHANGED <<timeout_sequence, current_position, initial_position_dirty,
                   original_timeout, seq_pc, pending, ds_timeout, host_state,
                   host_changed, command_port, child, accepted_position,
                   sleep_fresh, teardown_write>>
    /\ UNCHANGED <<icVars, envVars, armafVars, effVars, sysVars>>

\* the display server publishes a state on the watch channel
HostSignal(state) ==
    /\ Running
    /\ ~host_changed \/ state # host_state
    /\ host_state' = state
    /\ host_changed' = TRUE
    /\ cycle' = IF state = "Awakened" THEN NoCycle ELSE cycle
    /\ reply' = None
    /\ step' = NoIteration
    /\ UNCHANGED <<timeout_sequence, current_position, initial_position_dirty,
                   original_timeout, elapsed, sleep_left, seq_pc, pending,
                   ds_timeout, command_port, child, accepted_position,
                   sleep_fresh, teardown_write>>
    /\ UNCHANGED <<icVars, envVars, armafVars, effVars, sysVars>>

\* the owner of the command port drops it
DropPort ==
    /\ Running
    /\ command_port = "open"
    /\ command_port' = "dropped"
    /\ reply' = None
    /\ step' = NoIteration
    /\ UNCHANGED <<timeout_sequence, current_position, initial_position_dirty,
                   original_timeout, elapsed, sleep_left, seq_pc, pending,
                   ds_timeout, host_state, host_changed, child, accepted_position,
                   cycle, sleep_fresh, teardown_write>>
    /\ UNCHANGED <<icVars, envVars, armafVars, effVars, sysVars>>

\* change_position_and_notify up to the await of child_port.request
change_position_and_notify(change, branch, seen) ==
    LET attempted == IF change = "Increment" THEN current_position + 1 ELSE 0
    IN  /\ current_position' = attempted
        /\ IF attempted <= Len(timeout_sequence)
           THEN /\ seq_pc' = "await_child"
                /\ elapsed' = 0
                /\ pending' = Request(change, branch, seen, current_position,
                                      initial_position_dirty)
           ELSE \* assert!(self.current_position <= self.timeout_sequence.len())
                /\ seq_pc' = "panicked"
                /\ UNCHANGED <<elapsed, pending>>
        /\ cycle' = IF change = "Increment" /\ branch = "host" /\ current_position = 0
                    THEN [clean |-> TRUE, since |-> 0, idles |-> <<0>>]
                    ELSE IF change = "Increment" /\ cycle.clean
                    THEN [cycle EXCEPT !.idles = Append(@, cycle.since)]
                    ELSE NoCycle
        /\ reply' = None
        /\ step' = NoIteration
        /\ UNCHANGED <<timeout_sequence, initial_position_dirty, original_timeout,
                       sleep_left, ds_timeout, host_state, command_port, child,
                       accepted_position, sleep_fresh, teardown_write>>
        /\ UNCHANGED <<icVars, envVars, armafVars, effVars, sysVars>>

\* loop_iteration, first branch of the select!
SleepFired ==
    /\ seq_pc = "select"
    /\ SleepReady
    /\ change_position_and_notify("Increment", "sleep", "none")
    /\ UNCHANGED host_changed

\* loop_iteration, second branch: state_channel.changed()
HostChanged ==
    /\ seq_pc = "select"
    /\ host_changed
    /\ host_changed' = FALSE
    /\ LET new_state == host_state
           ds_position == IF initial_position_dirty THEN current_position ELSE 0
           unexpected ==
               /\ step' = Iteration("host", new_state, current_position,
                                    initial_position_dirty, "none", "none", "no")
               /\ reply' = None
               /\ UNCHANGED <<timeout_sequence, current_position,
                              initial_position_dirty, original_timeout, elapsed,
                              sleep_left, seq_pc, pending, ds_timeout, host_state,
                              command_port, child, accepted_position, cycle,
                              sleep_fresh, teardown_write>>
               /\ UNCHANGED <<icVars, envVars, armafVars, effVars, sysVars>>
       IN  CASE current_position = ds_position /\ new_state = "Awakened" ->
                    unexpected
             [] current_position = ds_position /\ new_state = "Idle" ->
                    change_position_and_notify("Increment", "host", new_state)
             [] current_position # ds_position /\ new_state = "Awakened" ->
                    change_position_and_notify("Reset", "host", new_state)
             [] current_position # ds_position /\ new_state = "Idle" ->
                    unexpected

\* loop_iteration, third branch with a request: respond(get_running_time()).
\* responded: is the requester still waiting for the answer?
GetRunningTime(responded) ==
    /\ seq_pc = "select"
    /\ command_port = "open"
    /\ IF responded
       THEN /\ reply' = Some(get_running_time(timeout_sequence, current_position,
                                              elapsed))
            /\ UNCHANGED seq_pc
       ELSE \* PortDropped
            /\ reply' = None
            /\ seq_pc' = "tear_down"
    /\ step' = NoIteration
    /\ UNCHANGED <<timeout_sequence, current_position, initial_position_dirty,
                   original_timeout, elapsed, sleep_left, pending, ds_timeout,
                   host_state, host_changed, command_port, child,
                   accepted_position, cycle, sleep_fresh, teardown_write>>
    /\ UNCHANGED <<icVars, envVars, armafVars, effVars, sysVars>>

\* loop_iteration, third branch with None: every sender of the port is gone
CommandClosed ==
    /\ seq_pc = "select"
    /\ command_port = "dropped"
    /\ seq_pc' = "tear_down"
    /\ cycle' = NoCycle
    /\ reply' = None
    /\ step' = NoIteration
    /\ UNCHANGED <<timeout_sequence, current_position, initial_position_dirty,
                   original_timeout, elapsed, sleep_left, pending, ds_timeout,
                   host_state, host_changed, command_port, child,
                   accepted_position, sleep_fresh, teardown_write>>
    /\ UNCHANGED <<icVars, envVars, armafVars, effVars, sysVars>>

\* change_position_and_notify from the answer of child_port.request on, and
\* the rest of the iteration of main_loop.  ds_ok: does the display server
\* carry out the call made in this step (force_activity or set_idleness_timeout)?
ChildRespond(answer, ds_ok) ==
    /\ seq_pc = "await_child"
    /\ LET done(position, forced) ==
               Iteration(pending.branch, pending.seen, pending.original_position,
                         pending.dirty, pending.msg, answer, forced)
           position == refused_position(pending.original_position, current_position)
       IN  IF answer = "Ok"
           THEN /\ accepted_position' = current_position
                /\ AfterIteration(current_position, TRUE, ds_ok)
                /\ seq_pc' = "select"
                /\ pending' = None
                /\ step' = done(current_position, "no")
                /\ UNCHANGED <<current_position, elapsed, host_state, host_changed,
                               child, cycle>>
           ELSE /\ current_position' = position
                /\ elapsed' = 0
                /\ cycle' = NoCycle
                /\ UNCHANGED accepted_position
                /\ IF is_terminating_error(answer)
                   THEN /\ seq_pc' = "tear_down"
                        /\ child' = "terminated"
                        /\ pending' = None
                        /\ step' = done(position, "no")
                        /\ UNCHANGED <<initial_position_dirty, ds_timeout, sleep_left,
                                       sleep_fresh, host_state, host_changed>>
                   ELSE IF error_forces_activity(position)
                   THEN \* force_activity up to its loop
                        /\ seq_pc' = "force_wait"
                        /\ pending' = [pending EXCEPT
                                         !.forced = IF ds_ok THEN "ok" ELSE "failed"]
                        /\ host_state' = IF ds_ok THEN "Awakened" ELSE host_state
                        /\ host_changed' = (ds_ok \/ host_changed)
                        /\ step' = NoIteration
                        /\ UNCHANGED <<initial_position_dirty, ds_timeout, sleep_left,
                                       sleep_fresh, child>>
                   ELSE /\ AfterIteration(position, TRUE, ds_ok)
                        /\ seq_pc' = "select"
                        /\ pending' = None
                        /\ step' = done(position, "no")
                        /\ UNCHANGED <<host_state, host_changed, child>>
    /\ reply' = None
    /\ UNCHANGED <<timeout_sequence, original_timeout, command_port, teardown_write>>
    /\ UNCHANGED <<icVars, envVars, armafVars, effVars, sysVars>>

\* force_activity, its loop: state_channel.changed() until the state is
\* Awakened; then the rest of the iteration of main_loop
ForceWait(ds_ok) ==
    /\ seq_pc = "force_wait"
    /\ host_changed
    /\ host_changed' = FALSE
    /\ IF host_state = "Awakened"
       THEN /\ AfterIteration(current_position, TRUE, ds_ok)
            /\ seq_pc' = "select"
            /\ step' = Iteration(pending.branch, pending.seen,
                                 pending.original_position, pending.dirty,
                                 pending.msg, "Actor", pending.forced)
            /\ pending' = None
       ELSE \* "Unexpected Idle state while waiting ..."
            /\ step' = NoIteration
            /\ UNCHANGED <<initial_position_dirty, ds_timeout, sleep_left,
                           sleep_fresh, seq_pc, pending>>
    /\ reply' = None
    /\ UNCHANGED <<timeout_sequence, current_position, original_timeout, elapsed,
                   host_state, command_port, child, accepted_position, cycle,
                   teardown_write>>
    /\ UNCHANGED <<icVars, envVars, armafVars, effVars, sysVars>>

\* tear_down up to the await of child_port.await_shutdown, which drops the
\* sender of child_port.  set_ok: does the display server accept the timeout?
tear_down(set_ok) ==
    /\ seq_pc = "tear_down"
    /\ teardown_write' = Some(restored_timeout(original_timeout))
    /\ ds_timeout' = IF set_ok THEN restored_timeout(original_timeout) ELSE ds_timeout
    /\ seq_pc' = "await_child_shutdown"
    /\ reply' = None
    /\ step' = NoIteration
    /\ UNCHANGED <<timeout_sequence, current_position, initial_position_dirty,
                   original_timeout, elapsed, sleep_left, pending, host_state,
                   host_changed, command_port, child, accepted_position, cycle,
                   sleep_fresh>>
    /\ UNCHANGED <<icVars, envVars, armafVars, effVars, sysVars>>

\* the child finds its port closed and drops its receiver
ChildTerminates ==
    /\ seq_pc = "await_child_shutdown"
    /\ child = "running"
    /\ child' = "terminated"
    /\ reply' = None
    /\ step' = NoIteration
    /\ UNCHANGED <<timeout_sequence, current_position, initial_position_dirty,
                   original_timeout, elapsed, sleep_left, seq_pc, pending,
                   ds_timeout, host_state, host_changed, command_port,
                   accepted_position, cycle, sleep_fresh, teardown_write>>
    /\ UNCHANGED <<icVars, envVars, armafVars, effVars, sysVars>>

\* tear_down returns: the sequencer, and with it its command receiver, is dropped
TornDown ==
    /\ seq_pc = "await_child_shutdown"
    /\ child = "terminated"
    /\ seq_pc' = "stopped"
    /\ reply' = None
    /\ step' = NoIteration
    /\ UNCHANGED <<timeout_sequence, current_position, initial_position_dirty,
                   original_timeout, elapsed, sleep_left, pending, ds_timeout,
                   host_state, host_changed, command_port, child,
                   accepted_position, cycle, sleep_fresh, teardown_write>>
    /\ UNCHANGED <<icVars, envVars, armafVars, effVars, sysVars>>

Spawn == \E get_ok \in BOOLEAN : \E set_ok \in BOOLEAN : spawn(get_ok, set_ok)
MainLoop == \E shorten_initial_sleep_by \in ShortenBy : main_loop(shorten_initial_sleep_by)
HostSignals == \E state \in SystemStates : HostSignal(state)
Command == \E responded \in BOOLEAN : GetRunningTime(responded)
ChildResponds == \E answer \in ChildAnswers : \E ds_ok \in BOOLEAN : ChildRespond(answer, ds_ok)
ForceWaits == \E ds_ok \in BOOLEAN : ForceWait(ds_ok)
TearDown == \E set_ok \in BOOLEAN : tear_down(set_ok)

NextSeq ==
    \/ Spawn
    \/ MainLoop
    \/ Tick
    \/ HostSignals
    \/ DropPort
    \/ SleepFired
    \/ HostChanged
    \/ Command
    \/ CommandClosed
    \/ ChildResponds
    \/ ForceWaits
    \/ TearDown
    \/ ChildTerminates
    \/ TornDown

SpecSeq == InitSeq /\ [][NextSeq]_vars

-----------------------------------------------------------------------------
(* Claims about the sequencer, checked under SpecSeq *)

RunningTimeNow == get_running_time(timeout_sequence, current_position, elapsed)

HandledBySleep ==
    position_handleable_by_sleep(timeout_sequence, current_position,
                                 initial_position_dirty)

ChildRefused == step.answer = "Actor"

\* C4: whoever asks for the running time sees a position the child has
\* accepted: outside of the await of the child's answer the position is the one
\* reached by the last accepted message, every answer to GetRunningTime is
\* computed from it, and after an error of the child the position is the one
\* held before the attempt.
C4_PositionAtomic ==
    /\ seq_pc \notin {"await_child", "panicked"} => current_position = accepted_position
    /\ reply.some =>
           reply.val = get_running_time(timeout_sequence, accepted_position, elapsed)
    /\ step.answer \in {"Actor", "Send", "Recv"} => current_position = step.position

C4_Witness ==
    /\ ChildRefused
    /\ step.sent = "Idle"
    /\ step.position > 0
    /\ current_position = step.position
    /\ seq_pc = "select"

\* C5 as stated: at a position p > 0 every answer r to GetRunningTime is at
\* least the sum of the first p timeouts and less than that sum plus t[p]
\* (nothing is added at p = n, where no timeout is left); at position 0 it is 0.
C5_Original ==
    reply.some =>
        LET p == current_position
            fired == step_times(timeout_sequence, p)
            next == IF p < Len(timeout_sequence) THEN timeout_sequence[p + 1] ELSE 0
        IN  IF p = 0 THEN reply.val = 0
            ELSE fired <= reply.val /\ reply.val < fired + next

\* C5: at a position p > 0 every answer r to GetRunningTime is at least the
\* sum of the first p timeouts, and it is less than that sum plus t[p] while
\* the position is handled by the internal sleep and the sleep is not yet due;
\* at position 0 the answer is 0.
C5_RunningTimeBound ==
    reply.some =>
        LET p == current_position
            fired == step_times(timeout_sequence, p)
        IN  IF p = 0 THEN reply.val = 0
            ELSE /\ fired <= reply.val
                 /\ HandledBySleep /\ sleep_left > 0 =>
                        reply.val < fired + timeout_sequence[p + 1]

C5_Witness ==
    /\ reply.some
    /\ HandledBySleep
    /\ sleep_left > 0
    /\ reply.val > step_times(timeout_sequence, current_position)

\* seconds from the first Idle of a cycle to its k-th: t[1] + ... + t[k-1]
IdleOffset(k) == step_times(timeout_sequence, k) - timeout_sequence[1]

\* C6: in a cycle started by the host's Idle at position 0, with no Awakened
\* and no child error since, the first Idle went to the child at the host's
\* signal and the k-th t[1]+...+t[k-1] seconds later; while the sequencer
\* selects, as many Idle were sent as its position says, the next one is not
\* overdue, at most n were sent and at position n no sleep is left to fire.
C6_IdleSchedule ==
    cycle.clean =>
        /\ Len(cycle.idles) <= Len(timeout_sequence)
        /\ \A k \in 1..Len(cycle.idles) : cycle.idles[k] = IdleOffset(k)
        /\ seq_pc = "select" =>
               /\ current_position = Len(cycle.idles)
               /\ current_position < Len(timeout_sequence) =>
                      cycle.since <= IdleOffset(current_position + 1)
               /\ current_position = Len(timeout_sequence) => ~SleepReady

C6_Witness ==
    /\ cycle.clean
    /\ seq_pc = "select"
    /\ Len(timeout_sequence) >= 3
    /\ timeout_sequence[2] # timeout_sequence[3]
    /\ Len(cycle.idles) = Len(timeout_sequence)
    /\ cycle.since > IdleOffset(Len(timeout_sequence))

HostAwakenedSeen == step.branch = "host" /\ step.seen = "Awakened"

AwakenedEffect ==
    /\ current_position = 0
    /\ RunningTimeNow = 0
    /\ ~SleepReady
    /\ ~sleep_fresh

\* only a sleep set for the present stay at the position fires, and at
\* position 0 an Idle is forwarded only for an Idle of the host
NoStaleSleep ==
    /\ seq_pc = "select" /\ SleepReady => sleep_fresh
    /\ step.sent = "Idle" /\ step.position = 0 =>
           step.branch = "host" /\ step.seen = "Idle"

\* C7 as stated: an Awakened of the host seen at any position k > 0 is
\* forwarded and leaves the sequencer at position 0 with running time 0 and
\* no sleep that could fire.
C7_Original ==
    /\ HostAwakenedSeen /\ step.position > 0 =>
           step.sent = "Awakened" /\ AwakenedEffect
    /\ NoStaleSleep

\* C7: an Awakened of the host seen at a position k > 0 (k = n included) that
\* is not a dirty start position is forwarded to the child, as one message;
\* once the child has accepted it the position is 0, the running time is 0 and
\* the sleep set for position k cannot fire; the next Idle is forwarded for
\* the host's Idle signal.
C7_AwakenedResets ==
    /\ HostAwakenedSeen /\ step.position > 0 /\ ~step.dirty => step.sent = "Awakened"
    /\ step.sent = "Awakened" /\ step.answer = "Ok" => AwakenedEffect
    /\ NoStaleSleep

C7_Witness ==
    /\ HostAwakenedSeen
    /\ step.position = Len(timeout_sequence)
    /\ step.sent = "Awakened"
    /\ step.answer = "Ok"
    /\ current_position = 0
    /\ sleep_left > 0

\* C8: after the child refused the Idle forwarded at position 0 the sequencer
\* is at position 0, it has called force_activity, it has taken the Awakened
\* that followed without sending the child anything, and an Idle of the host
\* seen at position 0 is always forwarded.
C8_RecoveryAtZero ==
    /\ ChildRefused /\ step.sent = "Idle" /\ step.position = 0 =>
           /\ current_position = 0
           /\ step.forced # "no"
           /\ seq_pc = "select"
           /\ pending = None
           /\ host_state = "Awakened"
           /\ ~host_changed
    /\ seq_pc = "force_wait" => current_position = 0 /\ pending.forced # "no"
    /\ step.branch = "host" /\ step.seen = "Idle" /\ step.position = 0 =>
           step.sent = "Idle"

C8_Witness ==
    /\ ChildRefused
    /\ step.sent = "Idle"
    /\ step.position = 0
    /\ step.forced = "ok"
    /\ current_position = 0

RetryArmed ==
    /\ HandledBySleep
    /\ sleep_fresh
    /\ sleep_left = timeout_sequence[current_position + 1]

\* C9 as stated: after the child refused an Idle forwarded at a position
\* k > 0 the sequencer is at k, has not forced activity, and its sleep will
\* fire for position k in t[k] seconds.
C9_Original ==
    ChildRefused /\ step.sent = "Idle" /\ step.position > 0 =>
        /\ current_position = step.position
        /\ step.forced = "no"
        /\ RetryArmed

\* C9: after the child refused an Idle forwarded at a position k > 0 the
\* sequencer is at k and has not forced activity; unless k is a dirty start
\* position whose display-server timeout could not be rewritten, its sleep
\* will fire for position k in t[k] seconds.
C9_RetryAfterError ==
    ChildRefused /\ step.sent = "Idle" /\ step.position > 0 =>
        /\ current_position = step.position
        /\ step.forced = "no"
        /\ ~initial_position_dirty => RetryArmed

C9_Witness ==
    /\ ChildRefused
    /\ step.sent = "Idle"
    /\ step.branch = "sleep"
    /\ step.position > 0
    /\ RetryArmed

TimeoutToRestore == IF original_timeout.some THEN original_timeout.val ELSE -1

\* C10: tear_down asks the display server for the timeout read at
\* initialization, or -1 if the read failed, before it awaits the child: the
\* write is not made earlier, the child is not shut down by the sequencer
\* before it, and the sequencer has stopped only with the write made and the
\* child terminated.
C10_TeardownOrder ==
    /\ original_timeout.some => original_timeout.val = DsInitial
    /\ seq_pc \in {"await_child_shutdown", "stopped"} =>
           teardown_write = Some(TimeoutToRestore)
    /\ seq_pc \notin {"await_child_shutdown", "stopped"} => teardown_write = None
    /\ child = "terminated" /\ teardown_write = None => seq_pc = "tear_down"
    /\ seq_pc = "stopped" => child = "terminated"

C10_Witness ==
    /\ seq_pc = "stopped"
    /\ command_port = "dropped"
    /\ original_timeout = None
    /\ ds_timeout = -1
    /\ child = "terminated"



-----------------------------------------------------------------------------
(* Data of the environment controller *)

\* Longest delay, in seconds, a schedule gives to an effect.
MaxDelay == 2

\* Longest running time, in seconds, a sequencer reports at a schedule swap.
MaxRunning == 4

ScheduleTypes == {"ExternalPower", "Battery", "LowBattery"}

\* effect names a schedule may use, in the order a bunch holds them
EffectOrder == <<"screen_dim", "locked_hint">>

\* the effector inventory: an Action for the effect of that name
EffectAction(name) ==
    CASE name = "screen_dim" -> Action(name, "brightness", "OnActivity", <<"Idle">>)
      [] name = "locked_hint" -> Action(name, "session", "Immediate", <<"Idle">>)
      [] name = "idle_hint" -> Action(name, "session", "OnActivity", <<"Idle">>)

\* type Schedule = HashMap<String, Duration>: effect name -> delay
Schedules ==
    UNION {[names -> 1..MaxDelay] : names \in (SUBSET Range(EffectOrder)) \ {{}}}

\* the schedule of a configuration that defines schedule.low_battery
LowBatterySchedule == [n \in {"screen_dim"} |-> 1]

\* battery.low_battery_percentage: absent, or an integer
ThresholdChoices == {None, Some(-1), Some(20)}

\* enum PowerStatus
External == [kind |-> "External", percentage |-> 0]
Battery(percentage) == [kind |-> "Battery", percentage |-> percentage]
PowerStatuses == {External} \cup {Battery(p) : p \in {10, 20, 30}}

-----------------------------------------------------------------------------
(* Pure parts of the environment controller *)

RECURSIVE Flatten(_)
\* flat_map(|bunch| &bunch.1)
Flatten(bunches) ==
    IF bunches = <<>> THEN <<>>
    ELSE Head(bunches).actions \o Flatten(Tail(bunches))

RECURSIVE SortedDelays(_)
\* sort_by_key(|bunch| bunch.0) over the distinct delays of a schedule
SortedDelays(delays) ==
    IF delays = {} THEN <<>>
    ELSE LET least == CHOOSE d \in delays : \A e \in delays : d <= e
         IN  <<least>> \o SortedDelays(delays \ {least})

\* sequence_for_schedule: one bunch per distinct delay, sorted by delay, and
\* the idle hint action pushed on the first bunch
sequence_for_schedule(schedule) ==
    LET delays == SortedDelays({schedule[n] : n \in DOMAIN schedule})
        Scheduled(d) ==
            SelectSeq(EffectOrder, LAMBDA n : n \in DOMAIN schedule /\ schedule[n] = d)
        bunch(d) == [n \in 1..Len(Scheduled(d)) |-> EffectAction(Scheduled(d)[n])]
    IN  [i \in 1..Len(delays) |->
            [timeout |-> delays[i],
             actions |-> IF i = 1 THEN Append(bunch(delays[i]), EffectAction("idle_hint"))
                         ELSE bunch(delays[i])]]

\* get_low_power_treshold: the field after the call
get_low_power_treshold(configured, treshold) ==
    IF configured.some THEN Some(configured.val) ELSE treshold

\* a mistaken comparison: the treshold itself does not count as low
power_status_to_schedule_type_strict(status, treshold) ==
    CASE status.kind = "External" -> "ExternalPower"
      [] ~treshold.some -> "Battery"
      [] OTHER -> IF treshold.val >= 0 /\ status.percentage >= treshold.val
                  THEN "Battery" ELSE "LowBattery"

\* power_status_to_schedule_type.  The treshold is the configured i64 `as u64`:
\* a negative one is at least 2^63 and above every percentage.
power_status_to_schedule_type(status, treshold) ==
    CASE status.kind = "External" -> "ExternalPower"
      [] ~treshold.some -> "Battery"
      [] OTHER -> IF treshold.val >= 0 /\ status.percentage > treshold.val
                  THEN "Battery" ELSE "LowBattery"

\* a mistaken order of substitution: LowBattery tries ExternalPower first
sequence_for_schedule_type_external_first(seqs, typ) ==
    IF seqs[typ].some THEN {seqs[typ].val}
    ELSE IF typ \in {"LowBattery", "Battery"} /\ seqs["ExternalPower"].some
         THEN {seqs["ExternalPower"].val}
    ELSE IF typ = "LowBattery" /\ seqs["Battery"].some THEN {seqs["Battery"].val}
    ELSE {seqs[t].val : t \in {u \in ScheduleTypes : seqs[u].some}}

\* sequence_for_schedule_type: the sequences it may return (the last resort,
\* sequences.iter().next(), is whichever entry the HashMap yields first)
sequence_for_schedule_type(seqs, typ) ==
    IF seqs[typ].some THEN {seqs[typ].val}
    ELSE IF typ = "LowBattery" /\ seqs["Battery"].some THEN {seqs["Battery"].val}
    ELSE IF typ = "Battery" /\ seqs["ExternalPower"].some THEN {seqs["ExternalPower"].val}
    ELSE {seqs[t].val : t \in {u \in ScheduleTypes : seqs[u].some}}

RECURSIVE passed_bunch_count_from(_, _, _, _)
\* passed_bunch_count: the loop from bunch i on
passed_bunch_count_from(seq, i, executed, countdown) ==
    IF i > Len(seq) THEN <<executed, countdown>>
    ELSE IF countdown >= seq[i].timeout
         THEN passed_bunch_count_from(seq, i + 1, executed + 1, countdown - seq[i].timeout)
         ELSE passed_bunch_count_from(seq, i + 1, executed, countdown)

passed_bunch_count(seq, running_time) == passed_bunch_count_from(seq, 1, 0, running_time)

\* effect_names_from_actions, collected into a HashSet
effect_names_from_actions(actions) == {actions[i].name : i \in 1..Len(actions)}

\* a mistaken filter: everything missed is executed again
actions_to_execute_all(executed_actions, missed_actions) == missed_actions

\* reconciliation_bunches: actions_to_execute
actions_to_execute(executed_actions, missed_actions) ==
    LET effect_names_to_execute ==
            effect_names_from_actions(missed_actions)
                \ effect_names_from_actions(executed_actions)
    IN  SelectSeq(missed_actions, LAMBDA a : a.name \in effect_names_to_execute)

RECURSIVE ports_to_rollback_once(_)
\* a mistaken list: a port is listed once however many actions it has executed
ports_to_rollback_once(executed_actions) ==
    IF executed_actions = <<>> THEN <<>>
    ELSE LET front == SubSeq(executed_actions, 1, Len(executed_actions) - 1)
             port == executed_actions[Len(executed_actions)].recipient
         IN  IF \E i \in 1..Len(front) : front[i].recipient = port
             THEN ports_to_rollback_once(front)
             ELSE Append(ports_to_rollback_once(front), port)

\* reconciliation_bunches: ports_to_rollback
ports_to_rollback(executed_actions) ==
    [i \in 1..Len(executed_actions) |-> executed_actions[i].recipient]

\* skip_effects
skip_effects(executed_actions, future_actions) ==
    effect_names_from_actions(executed_actions)
        \cap effect_names_from_actions(future_actions)

\* Some(v) for a vector that is not empty, None for an empty one
NonEmpty(v) == IF v # <<>> THEN Some(v) ELSE None

\* ReconciliationContext::reconciliation_bunches
reconciliation_bunches_of(executed_actions, missed_actions, future_actions) ==
    [execute |-> NonEmpty(actions_to_execute(executed_actions, missed_actions)),
     rollback |-> NonEmpty(ports_to_rollback(executed_actions)),
     skip_effects |-> skip_effects(executed_actions, future_actions)]

\* ReconciliationContext::new
ReconciliationContext(starting_bunch, initial_sleep_shorten, bunches) ==
    [starting_bunch |-> starting_bunch,
     initial_sleep_shorten |-> initial_sleep_shorten,
     reconciliation_bunches |-> bunches]

\* ReconciliationContext::empty
empty ==
    ReconciliationContext(0, 0, [execute |-> None, rollback |-> None, skip_effects |-> {}])

\* a mistaken start: the new sequence is entered where its own times say
starting_point_provisional(executed_old_bunches, provisional) == provisional

\* calculate: "If the system is already idle, we don't want it to wake up on
\* power source change"
starting_point(executed_old_bunches, provisional) ==
    IF executed_old_bunches = 1 /\ provisional[1] = 0
    THEN <<1, 0>>
    ELSE provisional

\* ReconciliationContext::calculate
calculate(old_sequence, new_sequence, running_time) ==
    IF running_time = 0 THEN empty
    ELSE LET executed_old_bunches == passed_bunch_count(old_sequence, running_time)[1]
             start == starting_point(executed_old_bunches,
                                     passed_bunch_count(new_sequence, running_time))
             new_starting_bunch == start[1]
             executed_actions == Flatten(SubSeq(old_sequence, 1, executed_old_bunches))
             missed_actions == Flatten(SubSeq(new_sequence, 1, new_starting_bunch))
             future_actions ==
                 Flatten(SubSeq(new_sequence, new_starting_bunch + 1, Len(new_sequence)))
         IN  ReconciliationContext(new_starting_bunch, start[2],
                 reconciliation_bunches_of(executed_actions, missed_actions, future_actions))

-----------------------------------------------------------------------------
(* The environment controller: spawn, and one action per branch of main_loop *)

\* the sequences spawn builds from the schedules of the configuration; an
\* empty set of schedules is refused ("No schedule defined")
SequenceChoices ==
    { [t \in ScheduleTypes |->
          CASE t = "ExternalPower" -> e
            [] t = "Battery" -> b
            [] t = "LowBattery" -> l] :
        e \in {None} \cup {Some(sequence_for_schedule(s)) : s \in Schedules},
        b \in {None} \cup {Some(sequence_for_schedule(s)) : s \in Schedules},
        l \in {None, Some(sequence_for_schedule(LowBatterySchedule))} }
      \ {[t \in ScheduleTypes |-> None]}

\* EnvironmentController::new
InitEnv ==
    /\ SysAbsent
    /\ config \in ThresholdChoices
    /\ sequences \in SequenceChoices
    /\ low_power_treshold = None
    /\ power_status \in PowerStatuses
    /\ schedule_type = "-"
    /\ sequence = <<>>
    /\ reconciliation_context = None
    /\ env_pc = "new"
    /\ swap = None
    /\ IcAbsent
    /\ SeqAbsent
    /\ ArmafAbsent
    /\ EffAbsent

\* spawn up to the first pair of actors: get_low_power_treshold, then the
\* head of main_loop
EnvSpawn ==
    /\ env_pc = "new"
    /\ low_power_treshold' = get_low_power_treshold(config, low_power_treshold)
    /\ schedule_type' = power_status_to_schedule_type(power_status, low_power_treshold')
    /\ sequence' \in sequence_for_schedule_type(sequences, schedule_type')
    /\ reconciliation_context' = Some(empty)
    /\ env_pc' = "running"
    /\ UNCHANGED <<config, sequences, power_status, swap>>
    /\ UNCHANGED <<icVars, seqVars, armafVars, effVars, sysVars>>

\* a mistaken order: the next pair is created before the old one is disposed
swap_events_pair_first ==
    << "GetRunningTime", "sequence_for_schedule_type", "calculate",
       "IdlenessController::new", "spawn_server", "Sequencer::new", "Sequencer::spawn",
       "await_shutdown" >>

\* main_loop from the break out of the inner loop to the next pair: the calls
\* it makes, in the order in which it awaits them
swap_events ==
    << "GetRunningTime", "await_shutdown", "sequence_for_schedule_type", "calculate",
       "IdlenessController::new", "spawn_server", "Sequencer::new", "Sequencer::spawn" >>

\* main_loop, power_status_receiver.changed(): the pair keeps running when the
\* schedule type stays, and is replaced when it changes.  running_time is the
\* sequencer's answer to GetRunningTime, zero when the request fails; spawned
\* tells whether the next sequencer's spawn succeeds (main_loop returns its
\* error otherwise).
PowerStatusChanged(status, running_time, spawned) ==
    /\ env_pc = "running"
    /\ status # power_status
    /\ power_status' = status
    /\ LET new_schedule_type == power_status_to_schedule_type(status, low_power_treshold)
       IN  IF new_schedule_type = schedule_type
           THEN UNCHANGED <<schedule_type, sequence, reconciliation_context, swap, env_pc>>
           ELSE /\ schedule_type' = new_schedule_type
                /\ env_pc' = IF spawned THEN "running" ELSE "failed"
                /\ \E new_sequence \in sequence_for_schedule_type(sequences, new_schedule_type) :
                      /\ reconciliation_context' =
                             Some(calculate(sequence, new_sequence, running_time))
                      /\ swap' = Some([old_sequence |-> sequence,
                                       new_sequence |-> new_sequence,
                                       running_time |-> running_time,
                                       events |-> swap_events])
                      /\ sequence' = new_sequence
    /\ UNCHANGED <<config, sequences, low_power_treshold>>
    /\ UNCHANGED <<icVars, seqVars, armafVars, effVars, sysVars>>

\* main_loop, should_terminate(): the handle was dropped
HandleDropped ==
    /\ env_pc = "running"
    /\ env_pc' = "stopped"
    /\ UNCHANGED <<config, sequences, low_power_treshold, power_status, schedule_type,
                   sequence, reconciliation_context, swap>>
    /\ UNCHANGED <<icVars, seqVars, armafVars, effVars, sysVars>>

PowerChanges ==
    \E status \in PowerStatuses, running_time \in 0..MaxRunning, spawned \in BOOLEAN :
        PowerStatusChanged(status, running_time, spawned)

NextEnv ==
    \/ EnvSpawn
    \/ PowerChanges
    \/ HandleDropped

SpecEnv == InitEnv /\ [][NextEnv]_vars

-----------------------------------------------------------------------------
(* Claims about the environment controller, checked under SpecEnv *)

\* a pair of actors has been replaced after a running time above zero
SwappedWhileIdle == swap.some /\ swap.val.running_time > 0

RECURSIVE TimeoutSum(_, _)
\* the bunch times of the first k bunches of a sequence, added up
TimeoutSum(seq, k) == IF k = 0 THEN 0 ELSE TimeoutSum(seq, k - 1) + seq[k].timeout

\* passed(seq, r).count: the bunches passed when each bunch time in turn is
\* taken off a countdown that starts at r, as long as the countdown covers it
PassedCount(seq, r) ==
    CHOOSE k \in 0..Len(seq) :
        /\ TimeoutSum(seq, k) <= r
        /\ k < Len(seq) => TimeoutSum(seq, k + 1) > r

\* passed(seq, r): the count and what is left of the countdown
Passed(seq, r) == <<PassedCount(seq, r), r - TimeoutSum(seq, PassedCount(seq, r))>>

ExecutedOld == PassedCount(swap.val.old_sequence, swap.val.running_time)

\* the actions of old_seq[0..executed_old]
OldApplied == Flatten(SubSeq(swap.val.old_sequence, 1, ExecutedOld))

\* the actions of new_seq[0..new_start], new_start being the computed start
NewMissed ==
    Flatten(SubSeq(swap.val.new_sequence, 1, reconciliation_context.val.starting_bunch))

NotOldApplied(a) == \A i \in 1..Len(OldApplied) : OldApplied[i].name # a.name

\* C17: after a swap at a running time above zero, the execute list holds the
\* actions of new_seq[0..new_start] whose effect name no action of
\* old_seq[0..executed_old] carries, in sequence order, and is absent when
\* there is none.
C17_ExecuteSet ==
    SwappedWhileIdle =>
        LET expected == SelectSeq(NewMissed, NotOldApplied)
        IN  reconciliation_context.val.reconciliation_bunches.execute
              = IF expected = <<>> THEN None ELSE Some(expected)

\* C17's case: of the actions the new sequence has missed, one is executed
\* and another is left out because the old sequence has applied its effect.
C17_Witness ==
    /\ SwappedWhileIdle
    /\ reconciliation_context.val.reconciliation_bunches.execute.some
    /\ Len(reconciliation_context.val.reconciliation_bunches.execute.val) < Len(NewMissed)
    /\ ExecutedOld >= 1

\* C18: after a swap at a running time above zero, the rollback list holds one
\* entry for every action of old_seq[0..executed_old], the port of that
\* action, and nothing else; after a swap at running time zero the context is
\* the empty one.
C18_RollbackSet ==
    /\ SwappedWhileIdle =>
          LET rollback == reconciliation_context.val.reconciliation_bunches.rollback
              listed == IF rollback.some THEN rollback.val ELSE <<>>
          IN  /\ rollback.some <=> OldApplied # <<>>
              /\ Len(listed) = Len(OldApplied)
              /\ \A p \in Range(listed) \cup {OldApplied[i].recipient : i \in 1..Len(OldApplied)} :
                    Cardinality({i \in 1..Len(listed) : listed[i] = p})
                      = Cardinality({i \in 1..Len(OldApplied) : OldApplied[i].recipient = p})
    /\ swap.some /\ swap.val.running_time = 0 =>
          reconciliation_context.val
            = [starting_bunch |-> 0, initial_sleep_shorten |-> 0,
               reconciliation_bunches |->
                   [execute |-> None, rollback |-> None, skip_effects |-> {}]]

\* C18's case: the old sequence has applied two actions of one port and has a
\* later bunch it has not reached.
C18_Witness ==
    /\ SwappedWhileIdle
    /\ ExecutedOld < Len(swap.val.old_sequence)
    /\ \E i, j \in 1..Len(OldApplied) :
          i # j /\ OldApplied[i].recipient = OldApplied[j].recipient
    /\ reconciliation_context.val.reconciliation_bunches.rollback.some

\* C19: after a swap at a running time above zero, the start and the shortening
\* of the first sleep are passed(new_seq, r), unless the old sequence has
\* passed exactly one bunch and the new one none: then they are 1 and 0.
C19_StartingPoint ==
    SwappedWhileIdle =>
        LET provisional == Passed(swap.val.new_sequence, swap.val.running_time)
        IN  <<reconciliation_context.val.starting_bunch,
              reconciliation_context.val.initial_sleep_shorten>>
              = IF ExecutedOld = 1 /\ provisional[1] = 0 THEN <<1, 0>> ELSE provisional

\* C19's case: the old sequence has passed one bunch, the new one none, and
\* the countdown of the new one was not zero.
C19_Witness ==
    /\ SwappedWhileIdle
    /\ ExecutedOld = 1
    /\ Passed(swap.val.new_sequence, swap.val.running_time)[1] = 0
    /\ Passed(swap.val.new_sequence, swap.val.running_time)[2] > 0
    /\ reconciliation_context.val.starting_bunch = 1

\* the environment controller has chosen a schedule type
TypeChosen == env_pc \in {"running", "stopped"}

\* C20 as stated: on battery, LowBattery is selected exactly when a treshold
\* is configured, a low_battery schedule exists and the percentage is at most
\* the treshold.
C20_Original ==
    TypeChosen =>
        schedule_type
          = IF power_status.kind = "External" THEN "ExternalPower"
            ELSE IF /\ config.some
                    /\ sequences["LowBattery"].some
                    /\ power_status.percentage <= config.val
                 THEN "LowBattery"
                 ELSE "Battery"

\* C20: on external power ExternalPower is selected; on battery, LowBattery is
\* selected exactly when a treshold is configured and the percentage is at
\* most the treshold read as an unsigned number (a negative treshold is above
\* every percentage), whether a low_battery schedule exists or not; otherwise
\* Battery is selected.
C20_ScheduleType ==
    TypeChosen =>
        schedule_type
          = IF power_status.kind = "External" THEN "ExternalPower"
            ELSE IF /\ config.some
                    /\ (config.val < 0 \/ power_status.percentage <= config.val)
                 THEN "LowBattery"
                 ELSE "Battery"

\* C20's case: the battery is at the treshold, no low_battery schedule
\* exists, and LowBattery is selected.
C20_Witness ==
    /\ TypeChosen
    /\ power_status.kind = "Battery"
    /\ config.some /\ power_status.percentage = config.val
    /\ ~sequences["LowBattery"].some
    /\ schedule_type = "LowBattery"

\* the tiers tried for a schedule type, the type itself first
Substitutions(typ) ==
    CASE typ = "LowBattery" -> <<"LowBattery", "Battery", "ExternalPower">>
      [] typ = "Battery" -> <<"Battery", "ExternalPower">>
      [] typ = "ExternalPower" -> <<"ExternalPower">>

\* C21: the sequence in use is that of the first tier, among the selected
\* type and its substitutes in order, that the configuration defines; when it
\* defines none of them, it is the sequence of some tier it does define.
C21_Substitution ==
    TypeChosen =>
        LET tiers == Substitutions(schedule_type)
            defined == {i \in 1..Len(tiers) : sequences[tiers[i]].some}
        IN  IF defined # {}
            THEN LET first == CHOOSE i \in defined : \A j \in defined : i <= j
                 IN  sequence = sequences[tiers[first]].val
            ELSE \E t \in ScheduleTypes : sequences[t].some /\ sequence = sequences[t].val

\* C21's case: LowBattery is selected, neither it nor Battery is defined,
\* and ExternalPower and Battery hold different sequences in some
\* configuration; here the sequence of ExternalPower is in use.
C21_Witness ==
    /\ TypeChosen
    /\ schedule_type = "LowBattery"
    /\ ~sequences["LowBattery"].some /\ ~sequences["Battery"].some
    /\ sequence = sequences["ExternalPower"].val

\* LowBattery is selected and undefined while Battery and ExternalPower are
\* defined differently: the sequence of Battery is in use
SubstitutedByBattery ==
    /\ TypeChosen
    /\ schedule_type = "LowBattery"
    /\ ~sequences["LowBattery"].some
    /\ sequences["Battery"].some /\ sequences["ExternalPower"].some
    /\ sequences["Battery"] # sequences["ExternalPower"]
    /\ sequence = sequences["Battery"].val

\* position of a call among the calls of the last swap
At(call) == CHOOSE i \in 1..Len(swap.val.events) : swap.val.events[i] = call

RECURSIVE LiveAfter(_, _)
\* sequencers and idleness controllers alive after the first k calls of a
\* swap that began with one pair running
LiveAfter(events, k) ==
    IF k = 0 THEN [sequencers |-> 1, controllers |-> 1]
    ELSE LET before == LiveAfter(events, k - 1)
         IN  CASE events[k] = "await_shutdown" ->
                      [sequencers |-> 0, controllers |-> 0]
               [] events[k] = "spawn_server" ->
                      [before EXCEPT !.controllers = @ + 1]
               [] events[k] = "Sequencer::spawn" ->
                      [before EXCEPT !.sequencers = @ + 1]
               [] OTHER -> before

AnchoredTimeout == ToI16(timeout_sequence[1])

\* initialize has succeeded and the loop has not started
StartedDirty == current_position # 0 /\ host_state = "Awakened"

\* while the start position is dirty no sleep fires and no iteration is one
\* of the sleep
NoSleepWhileDirty ==
    /\ initial_position_dirty => ~SleepReady
    /\ step.dirty => step.branch = "host"
    /\ pending # None /\ pending.dirty => pending.branch = "host"

\* the host's Idle seen at a dirty position p is forwarded as Idle, and the
\* position is p + 1 once the child has accepted it
DirtyIdleIsStep ==
    /\ step.dirty /\ step.seen = "Idle" =>
           /\ step.sent = "Idle"
           /\ step.answer = "Ok" => current_position = step.position + 1
    /\ pending # None /\ pending.dirty /\ pending.seen = "Idle" =>
           /\ pending.msg = "Idle"
           /\ current_position = pending.original_position + 1

\* the dirtiness ends only in an iteration that forwarded a state change, and
\* it ends with the timeout of position 0 written; as long as it lasts the
\* sequencer leaves the timeout of the start position in place
Undirtying ==
    /\ initial_position_dirty /\ ~initial_position_dirty' =>
           /\ step'.dirty /\ step'.sent # "none"
           /\ ds_timeout' = AnchoredTimeout
    /\ initial_position_dirty /\ initial_position_dirty' /\ Running' =>
           ds_timeout' = ds_timeout
    /\ ~initial_position_dirty /\ seq_pc # "new" => ~initial_position_dirty'

\* C23: a sequencer started at a position p > 0 with the host Awakened is
\* dirty and has given the display server the timeout t[p]; started with the
\* host Idle (or at 0) it is not dirty and has given it t[0], and its sleep
\* for the start position is armed.  While dirty no internal sleep runs, the
\* host's Idle is forwarded as the step from p to p + 1, and the iteration
\* that forwarded the first state change ends the dirtiness by writing t[0]
\* (it stays dirty, with the timeout untouched, when the display server
\* refuses that write).
C23_DirtyStart ==
    /\ [](/\ seq_pc = "spawned" =>
                /\ initial_position_dirty = StartedDirty
                /\ StartedDirty => current_position < Len(timeout_sequence)
                /\ ds_timeout = IF ~StartedDirty THEN AnchoredTimeout
                                ELSE IF current_position < Len(timeout_sequence)
                                THEN ToI16(timeout_sequence[current_position + 1])
                                ELSE DsInitial
          /\ seq_pc = "select" /\ sleep_fresh /\ ~initial_position_dirty
             /\ current_position # 0 /\ sleep_left = 0 => SleepReady
          /\ NoSleepWhileDirty
          /\ DirtyIdleIsStep
          /\ step.dirty /\ step.sent # "none" /\ ~initial_position_dirty
             /\ Running => ds_timeout = AnchoredTimeout)
    /\ [][Undirtying]_vars

\* started dirty at p > 0 with t[p] # t[0]: the host's Idle was forwarded,
\* the child accepted it, and the display server now holds t[0]
C23_Witness ==
    /\ step.dirty
    /\ step.position > 0
    /\ step.seen = "Idle"
    /\ step.sent = "Idle"
    /\ step.answer = "Ok"
    /\ current_position = step.position + 1
    /\ ~initial_position_dirty
    /\ timeout_sequence[step.position + 1] # timeout_sequence[1]
    /\ ds_timeout = AnchoredTimeout

\* started at p > 0 with the host Idle: the first iteration is one of the
\* sleep, at the start position, with t[0] on the display server
IdleStartAdvancesBySleep ==
    /\ pending # None
    /\ pending.branch = "sleep"
    /\ pending.original_position > 0
    /\ accepted_position = pending.original_position
    /\ host_state = "Idle"
    /\ ~host_changed
    /\ ds_timeout = AnchoredTimeout

\* ---------------------------------------------------------------------------
\* armaf: ActorPort (src/src/armaf/ports.rs), spawn_server
\* (src/src/armaf/server.rs) and spawn_actor (src/src/armaf/actors.rs)

MaxClients == 2
MaxRequests == 2

\* mpsc::channel::<Request<P, R, E>>(8)
ChannelCapacity == 8

Clients == 1..MaxClients
\* TestActorMessage of the task that owns its receiver; the task of
\* spawn_server passes the payload to handle_message unread
Payloads == IF actor_kind = "raw" THEN {"Increment", "Terminate"} ELSE {"Increment"}

after_initialize_always(had_init_error) == "recv"

\* the spawned task after initialization_sender.send: it returns on an error
after_initialize(had_init_error) == IF had_init_error THEN "returned" ELSE "recv"

\* the match on initialization_receiver.await at the end of spawn_server
spawn_outcome(init_result) == IF init_result = "ok" THEN "port" ELSE "error"

request_outcome_swapped(was_sent, answer) ==
    IF ~was_sent THEN "Recv"
    ELSE IF answer = "dropped" THEN "Send"
    ELSE IF answer = "ok" THEN "Ok" ELSE "Actor"

\* ActorPort::request: was_sent, raw_request succeeded; answer, what became of
\* the oneshot channel of the request
request_outcome(was_sent, answer) ==
    IF ~was_sent THEN "Send"
    ELSE IF answer = "dropped" THEN "Recv"
    ELSE IF answer = "ok" THEN "Ok" ELSE "Actor"

recv_index_newest(queue) == Len(queue)

\* rx.recv(): the channel hands out the oldest request
recv_index(queue) == 1

receiver_dropped_at_tear_down(pc) == pc \in {"tear_down", "returned"}

\* the ActorReceiver, and the shutdown notifier in it, live in the task and are
\* dropped when it returns
receiver_dropped(pc) == pc = "returned"

\* message senders alive: the clones held, and the port spawn_server holds
\* until it returns
Senders ==
    Cardinality({c \in Clients : clones[c] = "held"})
    + (IF spawn_result = "pending" THEN 1 ELSE 0)

Without(queue, i) == [j \in 1..(Len(queue) - 1) |-> IF j < i THEN queue[j] ELSE queue[j + 1]]

\* the oneshot channels of the requests in `rs` are answered or dropped
Resolved(rs, answer) ==
    [r \in DOMAIN requests |->
        IF r \in rs
        THEN [requests[r] EXCEPT !.answer = answer,
                                 !.outcomes = Append(@, request_outcome(TRUE, answer))]
        ELSE requests[r]]

Released(rs) ==
    [c \in Clients |-> IF waiting[c] \in rs THEN 0 ELSE waiting[c]]

InitArmaf ==
    /\ SysAbsent
    /\ IcAbsent
    /\ SeqAbsent
    /\ EnvAbsent
    /\ EffAbsent
    /\ actor_kind \in {"server", "raw"}
    /\ actor_pc = IF actor_kind = "server" THEN "initialize" ELSE "recv"
    /\ initialization = "none"
    /\ spawn_result = IF actor_kind = "server" THEN "pending" ELSE "port"
    /\ clones = [c \in Clients |-> IF c = 1 /\ actor_kind = "raw" THEN "held" ELSE "none"]
    /\ mailbox = <<>>
    /\ handling = 0
    /\ requests = <<>>
    /\ waiting = [c \in Clients |-> 0]
    /\ hooks = <<>>

\* the spawned task up to its loop: initialize, initialization_sender.send
Initialize(ok) ==
    /\ actor_kind = "server"
    /\ actor_pc = "initialize"
    /\ hooks' = Append(hooks, <<"initialize">>)
    /\ initialization' = IF ok THEN "ok" ELSE "err"
    /\ actor_pc' = after_initialize(~ok)
    /\ UNCHANGED <<actor_kind, spawn_result, clones, mailbox, handling, requests, waiting>>
    /\ UNCHANGED <<icVars, seqVars, envVars, effVars, sysVars>>

\* spawn_server from initialization_receiver.await on
SpawnReturns ==
    /\ spawn_result = "pending"
    /\ initialization # "none"
    /\ spawn_result' = spawn_outcome(initialization)
    /\ clones' = IF spawn_result' = "port" THEN [clones EXCEPT ![1] = "held"] ELSE clones
    /\ UNCHANGED <<actor_kind, actor_pc, initialization, mailbox, handling, requests,
                   waiting, hooks>>
    /\ UNCHANGED <<icVars, seqVars, envVars, effVars, sysVars>>

\* ActorPort::clone
Clone(c, d) ==
    /\ clones[c] = "held"
    /\ clones[d] = "none"
    /\ clones' = [clones EXCEPT ![d] = "held"]
    /\ UNCHANGED <<actor_kind, actor_pc, initialization, spawn_result, mailbox, handling,
                   requests, waiting, hooks>>
    /\ UNCHANGED <<icVars, seqVars, envVars, effVars, sysVars>>

\* ActorPort::request up to rx.await
request(c, payload) ==
    /\ clones[c] = "held"
    /\ waiting[c] = 0
    /\ Len(requests) < MaxRequests
    /\ LET r == Len(requests) + 1
           made == [client |-> c, payload |-> payload, answer |-> "none"]
       IN  IF receiver_dropped(actor_pc)
           THEN /\ requests' = Append(requests,
                        made @@ [was_sent |-> FALSE,
                                 outcomes |-> <<request_outcome(FALSE, "none")>>])
                /\ UNCHANGED <<mailbox, waiting>>
           ELSE /\ Len(mailbox) < ChannelCapacity
                /\ requests' = Append(requests,
                        made @@ [was_sent |-> TRUE, outcomes |-> <<>>])
                /\ mailbox' = Append(mailbox, r)
                /\ waiting' = [waiting EXCEPT ![c] = r]
    /\ UNCHANGED <<actor_kind, actor_pc, initialization, spawn_result, clones, handling,
                   hooks>>
    /\ UNCHANGED <<icVars, seqVars, envVars, effVars, sysVars>>

\* the loop of the task, rx.recv() returned Some(req): handle_message is called
Receive ==
    /\ actor_kind = "server"
    /\ actor_pc = "recv"
    /\ mailbox # <<>>
    /\ LET i == recv_index(mailbox)
       IN  /\ handling' = mailbox[i]
           /\ mailbox' = Without(mailbox, i)
           /\ hooks' = Append(hooks, <<"handle_message", mailbox[i]>>)
    /\ actor_pc' = "handle_message"
    /\ UNCHANGED <<actor_kind, initialization, spawn_result, clones, requests, waiting>>
    /\ UNCHANGED <<icVars, seqVars, envVars, effVars, sysVars>>

\* handle_message returned, req.response_sender.send(res)
Respond(ok) ==
    /\ actor_pc = "handle_message"
    /\ requests' = Resolved({handling}, IF ok THEN "ok" ELSE "err")
    /\ waiting' = Released({handling})
    /\ hooks' = Append(hooks, <<"respond", handling>>)
    /\ handling' = 0
    /\ actor_pc' = "recv"
    /\ UNCHANGED <<actor_kind, initialization, spawn_result, clones, mailbox>>
    /\ UNCHANGED <<icVars, seqVars, envVars, effVars, sysVars>>

\* rx.recv() returned None: every sender is gone and the channel is empty
Closed ==
    /\ actor_pc = "recv"
    /\ mailbox = <<>>
    /\ Senders = 0
    /\ IF actor_kind = "server"
       THEN /\ actor_pc' = "tear_down"
            /\ hooks' = Append(hooks, <<"tear_down">>)
       ELSE /\ actor_pc' = "returned"
            /\ UNCHANGED hooks
    /\ UNCHANGED <<actor_kind, initialization, spawn_result, clones, mailbox, handling,
                   requests, waiting>>
    /\ UNCHANGED <<icVars, seqVars, envVars, effVars, sysVars>>

\* tear_down returned (an error is logged), the task returns
ActorTornDown ==
    /\ actor_pc = "tear_down"
    /\ actor_pc' = "returned"
    /\ hooks' = Append(hooks, <<"torn_down">>)
    /\ UNCHANGED <<actor_kind, initialization, spawn_result, clones, mailbox, handling,
                   requests, waiting>>
    /\ UNCHANGED <<icVars, seqVars, envVars, effVars, sysVars>>

\* a task that owns the ActorReceiver: it answers Increment and returns on
\* Terminate without an answer, dropping the receiver with what is queued
RawReceive(ok) ==
    /\ actor_kind = "raw"
    /\ actor_pc = "recv"
    /\ mailbox # <<>>
    /\ LET r == mailbox[recv_index(mailbox)]
           queued == {mailbox[i] : i \in 1..Len(mailbox)}
       IN  IF requests[r].payload = "Terminate"
           THEN /\ requests' = Resolved(queued, "dropped")
                /\ waiting' = Released(queued)
                /\ mailbox' = <<>>
                /\ actor_pc' = "returned"
           ELSE /\ requests' = Resolved({r}, IF ok THEN "ok" ELSE "err")
                /\ waiting' = Released({r})
                /\ mailbox' = Without(mailbox, recv_index(mailbox))
                /\ UNCHANGED actor_pc
    /\ UNCHANGED <<actor_kind, initialization, spawn_result, clones, handling, hooks>>
    /\ UNCHANGED <<icVars, seqVars, envVars, effVars, sysVars>>

\* ActorPort::await_shutdown up to shutdown_receiver.changed().await
await_shutdown(c) ==
    /\ clones[c] = "held"
    /\ waiting[c] = 0
    /\ clones' = [clones EXCEPT ![c] = "awaiting"]
    /\ UNCHANGED <<actor_kind, actor_pc, initialization, spawn_result, mailbox, handling,
                   requests, waiting, hooks>>
    /\ UNCHANGED <<icVars, seqVars, envVars, effVars, sysVars>>

\* shutdown_receiver.changed() returned an error: the notifier is dropped
ShutdownObserved(c) ==
    /\ clones[c] = "awaiting"
    /\ receiver_dropped(actor_pc)
    /\ clones' = [clones EXCEPT ![c] = "returned"]
    /\ UNCHANGED <<actor_kind, actor_pc, initialization, spawn_result, mailbox, handling,
                   requests, waiting, hooks>>
    /\ UNCHANGED <<icVars, seqVars, envVars, effVars, sysVars>>

\* a clone of the port goes out of scope
DropClone(c) ==
    /\ clones[c] = "held"
    /\ waiting[c] = 0
    /\ clones' = [clones EXCEPT ![c] = "dropped"]
    /\ UNCHANGED <<actor_kind, actor_pc, initialization, spawn_result, mailbox, handling,
                   requests, waiting, hooks>>
    /\ UNCHANGED <<icVars, seqVars, envVars, effVars, sysVars>>

Initializes == \E ok \in BOOLEAN : Initialize(ok)
Clones == \E c, d \in Clients : Clone(c, d)
PortRequests == \E c \in Clients, payload \in Payloads : request(c, payload)
Responds == \E ok \in BOOLEAN : Respond(ok)
RawReceives == \E ok \in BOOLEAN : RawReceive(ok)
AwaitsShutdown == \E c \in Clients : await_shutdown(c)
ShutdownsObserved == \E c \in Clients : ShutdownObserved(c)
DropsClone == \E c \in Clients : DropClone(c)

ActorSteps ==
    Initializes \/ SpawnReturns \/ Receive \/ Responds \/ Closed \/ ActorTornDown
    \/ RawReceives \/ ShutdownsObserved

NextArmaf ==
    \/ Initializes
    \/ SpawnReturns
    \/ Clones
    \/ PortRequests
    \/ Receive
    \/ Responds
    \/ Closed
    \/ ActorTornDown
    \/ RawReceives
    \/ AwaitsShutdown
    \/ ShutdownsObserved
    \/ DropsClone

SpecArmaf == InitArmaf /\ [][NextArmaf]_vars

\* ---------------------------------------------------------------------------
\* Properties of the actor framework

Called(hook) == \E i \in 1..Len(hooks) : hooks[i][1] = hook

\* C24: spawn_server and spawn_actor hand out the port only after initialize
\* has returned Ok, and initialize is the first hook called; when initialize
\* fails the caller gets the error and no port, and neither handle_message nor
\* tear_down is ever called.
C24_InitializeFirst ==
    actor_kind = "server" =>
        /\ spawn_result = "port" => initialization = "ok"
        /\ spawn_result = "error" => initialization = "err"
        /\ (\E c \in Clients : clones[c] # "none") => spawn_result = "port"
        /\ hooks # <<>> => hooks[1] = <<"initialize">>
        /\ initialization = "err" =>
               /\ spawn_result \in {"pending", "error"}
               /\ ~Called("handle_message")
               /\ ~Called("tear_down")
               /\ requests = <<>>

\* initialize failed, the caller has the error and the task has returned
C24_Witness ==
    /\ actor_kind = "server"
    /\ initialization = "err"
    /\ spawn_result = "error"
    /\ actor_pc = "returned"
    /\ hooks = << <<"initialize">> >>

Outcome(r) == requests[r].outcomes

Answered(r) == \E i \in 1..Len(hooks) : hooks[i] = <<"respond", r>>

InChannel(r) == \E i \in 1..Len(mailbox) : mailbox[i] = r

\* C25: a request resolves at most once, to Ok, Actor, Send or Recv.  It is
\* Send exactly when the receiver was gone at the send, so that the actor never
\* saw the request; Recv exactly when the request was taken into the channel
\* and its reply slot was dropped unanswered; Ok or Actor exactly when the actor
\* answered with a value or with an error.  A request without an outcome is
\* still in the channel or in the handler, with its client waiting.
C25_RequestOutcomes ==
    \A r \in DOMAIN requests :
        /\ Len(Outcome(r)) <= 1
        /\ \A i \in 1..Len(Outcome(r)) : Outcome(r)[i] \in {"Ok", "Actor", "Send", "Recv"}
        /\ Outcome(r) = <<"Send">> <=> ~requests[r].was_sent
        /\ ~requests[r].was_sent =>
               /\ receiver_dropped(actor_pc)
               /\ requests[r].answer = "none"
               /\ ~Answered(r) /\ ~InChannel(r) /\ handling # r
        /\ Outcome(r) = <<"Recv">> <=> requests[r].answer = "dropped"
        /\ requests[r].answer = "dropped" =>
               requests[r].was_sent /\ ~Answered(r) /\ receiver_dropped(actor_pc)
        /\ Outcome(r) = <<"Ok">> <=> requests[r].answer = "ok"
        /\ Outcome(r) = <<"Actor">> <=> requests[r].answer = "err"
        /\ Outcome(r) = <<>> <=> waiting[requests[r].client] = r
        /\ Outcome(r) = <<>> => (InChannel(r) \/ handling = r)

\* one request was dropped with the receiver and one was made after the
\* receiver was gone
C25_Witness ==
    /\ \E r \in DOMAIN requests : Outcome(r) = <<"Recv">>
    /\ \E r \in DOMAIN requests : Outcome(r) = <<"Send">>

\* the tasks run: a step of the actor's task, or of a caller whose await is
\* over, that stays possible is taken
FairArmaf == SpecArmaf /\ WF_vars(ActorSteps)

TornDownCompletely ==
    /\ actor_pc = "returned"
    /\ actor_kind = "server" =>
           /\ hooks[Len(hooks)] = <<"torn_down">>
           /\ \A c \in Clients : clones[c] # "held"

\* C26: await_shutdown has returned only when the actor's task has returned,
\* for an actor of spawn_server after tear_down and with no clone of the port
\* held any more; and a caller that awaits the shutdown does get its return
\* once no sender is left.
C26_AwaitShutdown ==
    /\ [](\A c \in Clients : clones[c] = "returned" => TornDownCompletely)
    /\ \A c \in Clients :
           (clones[c] = "awaiting" /\ Senders = 0) ~> (clones[c] = "returned")

\* await_shutdown returned to one client after the other had dropped its clone
\* and the actor had served a request and torn down
C26_Witness ==
    /\ actor_kind = "server"
    /\ \E c, d \in Clients :
           /\ clones[c] = "returned"
           /\ clones[d] = "dropped"
    /\ Called("handle_message")
    /\ hooks[Len(hooks)] = <<"torn_down">>

\* the place in hooks where handle_message took request r, 0 if it did not
Started(r) ==
    IF \E i \in 1..Len(hooks) : hooks[i] = <<"handle_message", r>>
    THEN CHOOSE i \in 1..Len(hooks) : hooks[i] = <<"handle_message", r>>
    ELSE 0

Finished(r) ==
    IF Answered(r)
    THEN CHOOSE i \in 1..Len(hooks) : hooks[i] = <<"respond", r>>
    ELSE 0

\* C27: the task of spawn_server takes the requests in the order of their
\* arrival in the channel, whichever clone sent them, and calls handle_message
\* for one only after it has answered the one before, so that an Idle is
\* handled to its end before an Awakened that follows it is begun.
C27_OneAtATime ==
    actor_kind = "server" =>
        /\ \A i \in 1..Len(hooks) :
               hooks[i][1] = "handle_message" =>
                   IF i < Len(hooks)
                   THEN hooks[i + 1] = <<"respond", hooks[i][2]>>
                   ELSE handling = hooks[i][2] /\ actor_pc = "handle_message"
        /\ \A r \in DOMAIN requests :
               /\ Cardinality({i \in 1..Len(hooks) :
                                   hooks[i] = <<"handle_message", r>>}) <= 1
               /\ Started(r) # 0 =>
                      \A q \in 1..(r - 1) :
                          /\ Finished(q) # 0
                          /\ Finished(q) < Started(r)
               /\ Started(r) = 0 => InChannel(r)

\* two clones have sent, each a request; the one that arrived first is in the
\* handler while the other waits in the channel
C27_Witness ==
    /\ actor_kind = "server"
    /\ handling = 1
    /\ mailbox = <<2>>
    /\ requests[1].client # requests[2].client

\* ---------------------------------------------------------------------------
\* Effectors (src/src/system): the actors behind the effector ports and the
\* resources they control

\* dim_fraction without configuration, in percent
DefaultDimPercentage == 50

EffectorKinds == {"brightness", "dpms", "session", "lock"}
EffectorMessages == {"Execute", "Rollback", "CurrentlyAppliedEffects"}
DPMSLevels == {"On", "Standby", "Off"}
DPMSTimeoutChoices == {<<0, 0, 0>>, <<10, 20, 30>>}
BrightnessChoices == {50, 80}

Absent(default) == [some |-> FALSE, val |-> default]

\* BrightnessEffectorActor::new, DPMSEffectorActor::new, LockEffectorActor::new
NewActor ==
    [original_brightness |-> Absent(0),
     display_off |-> FALSE,
     original_configuration |-> [level |-> Some("On"), timeouts |-> <<0, 0, 0>>],
     status_receiver |-> FALSE]

\* DisplayServerController::get_dpms_level
get_dpms_level(r) == IF r.dpms_enabled THEN Some(r.dpms_level) ELSE Absent("On")

\* ServerConfiguration::fetch
fetch(r) == [level |-> get_dpms_level(r), timeouts |-> r.dpms_timeouts]

apply_enabled(configuration, r) ==
    [r EXCEPT !.dpms_enabled = TRUE,
              !.dpms_level = configuration.level.val,
              !.dpms_timeouts = configuration.timeouts]

\* ServerConfiguration::apply with a controller that works
apply(configuration, r) ==
    IF configuration.level.some
    THEN [r EXCEPT !.dpms_enabled = TRUE,
                   !.dpms_level = configuration.level.val,
                   !.dpms_timeouts = configuration.timeouts]
    ELSE [r EXCEPT !.dpms_enabled = FALSE,
                   !.dpms_timeouts = configuration.timeouts]

\* dim_screen: the brightness it sets
dimmed(current_brightness) == (current_brightness * DefaultDimPercentage) \div 100

\* the watch task of spawn_locker has not sent its result yet
watching(r) == r.locker \in {"spawning", "running"}

\* update_child_status: the watch task of the locker has sent its result
update_child_status(e, r) ==
    IF e.status_receiver /\ ~watching(r)
    THEN [e EXCEPT !.status_receiver = FALSE]
    ELSE e

\* the number CurrentlyAppliedEffects is answered with
depth(kind, e, r) ==
    CASE kind = "brightness" -> IF e.original_brightness.some THEN 1 ELSE 0
      [] kind = "dpms" -> IF e.display_off THEN 1 ELSE 0
      [] kind = "session" -> IF r.idle_hint THEN 1 ELSE 0
      [] kind = "lock" -> IF update_child_status(e, r).status_receiver THEN 1 ELSE 0

\* get_effects: the number of effects the effector declares
max_depth(kind) == IF kind = "session" THEN 2 ELSE 1

Answer(e, r, result, applied) ==
    [eff |-> e, resource |-> r, result |-> result, reply |-> applied]

\* BrightnessEffectorActor::handle_message
brightness_handle_message(payload, e, r, fail) ==
    CASE payload = "Execute" ->
            IF e.original_brightness.some \/ fail
            THEN Answer(e, r, "err", 0)
            ELSE Answer([e EXCEPT !.original_brightness = Some(r.brightness)],
                        [r EXCEPT !.brightness = dimmed(r.brightness)], "ok", 1)
      [] payload = "Rollback" ->
            IF ~e.original_brightness.some \/ fail
            THEN Answer(e, r, "err", 0)
            ELSE Answer([e EXCEPT !.original_brightness = Absent(0)],
                        [r EXCEPT !.brightness = e.original_brightness.val], "ok", 0)
      [] payload = "CurrentlyAppliedEffects" ->
            Answer(e, r, "ok", depth("brightness", e, r))

\* DPMSEffectorActor::handle_message
dpms_handle_message(payload, e, r, fail) ==
    CASE payload = "Execute" ->
            IF fail
            THEN Answer(e, r, "err", 0)
            ELSE Answer([e EXCEPT !.display_off = TRUE],
                        [r EXCEPT !.dpms_level = "Off"], "ok", 1)
      [] payload = "Rollback" ->
            IF fail
            THEN Answer(e, r, "err", 0)
            ELSE Answer([e EXCEPT !.display_off = FALSE],
                        [r EXCEPT !.dpms_level = "On"], "ok", 0)
      [] payload = "CurrentlyAppliedEffects" ->
            Answer(e, r, "ok", depth("dpms", e, r))

\* SessionEffectorActor::handle_message
session_handle_message(payload, e, r, fail) ==
    IF fail
    THEN Answer(e, r, "err", 0)
    ELSE CASE payload = "Execute" -> Answer(e, [r EXCEPT !.idle_hint = TRUE], "ok", 1)
           [] payload = "Rollback" -> Answer(e, [r EXCEPT !.idle_hint = FALSE], "ok", 0)
           [] payload = "CurrentlyAppliedEffects" ->
                  Answer(e, r, "ok", depth("session", e, r))

lock_handle_message_unlocked(payload, e, r) ==
    LET checked == update_child_status(e, r)
    IN  CASE payload = "Execute" ->
                Answer([checked EXCEPT !.status_receiver = TRUE],
                       [r EXCEPT !.locker = "spawning"], "ok", 1)
          [] payload = "Rollback" ->
                Answer([checked EXCEPT !.status_receiver = FALSE], r, "ok", 0)
          [] payload = "CurrentlyAppliedEffects" ->
                Answer(checked, r, "ok", IF checked.status_receiver THEN 1 ELSE 0)

\* LockEffectorActor::handle_message, but for the Rollback that finds the
\* watch task still running; spawn_locker starts the watch task
lock_handle_message(payload, e, r) ==
    LET checked == update_child_status(e, r)
        is_locked == checked.status_receiver
    IN  CASE payload = "Execute" ->
                IF is_locked
                THEN Answer(checked, r, "err", 0)
                ELSE Answer([checked EXCEPT !.status_receiver = TRUE],
                            [r EXCEPT !.locker = "spawning"], "ok", 1)
          [] payload = "Rollback" ->
                Answer([checked EXCEPT !.status_receiver = FALSE], r, "ok", 0)
          [] payload = "CurrentlyAppliedEffects" ->
                Answer(checked, r, "ok", IF is_locked THEN 1 ELSE 0)

NoMessage ==
    [payload |-> "none", result |-> "none", reply |-> 0, depth_before |-> 0,
     failing |-> FALSE, changed |-> FALSE,
     previous |-> [payload |-> "none", result |-> "none", failing |-> FALSE]]

Recorded(payload, answer) ==
    [payload |-> payload, result |-> answer.result, reply |-> answer.reply,
     depth_before |-> depth(eff_kind, eff, resource),
     failing |-> should_fail,
     changed |-> (answer.eff # eff \/ answer.resource # resource),
     previous |-> [payload |-> eff_last.payload, result |-> eff_last.result,
                   failing |-> eff_last.failing]]

InitEff ==
    /\ SysAbsent
    /\ IcAbsent
    /\ SeqAbsent
    /\ EnvAbsent
    /\ ArmafAbsent
    /\ eff_kind \in EffectorKinds
    /\ eff_pc = "initialize"
    /\ eff = NewActor
    /\ \E b \in BrightnessChoices, enabled \in BOOLEAN, level \in DPMSLevels,
          timeouts \in DPMSTimeoutChoices :
           resource = [brightness |-> IF eff_kind = "brightness" THEN b ELSE 80,
                       dpms_enabled |-> IF eff_kind = "dpms" THEN enabled ELSE TRUE,
                       dpms_level |-> IF eff_kind = "dpms" THEN level ELSE "On",
                       dpms_timeouts |-> IF eff_kind = "dpms" THEN timeouts
                                         ELSE <<10, 20, 30>>,
                       idle_hint |-> FALSE,
                       locked_hint |-> FALSE,
                       locker |-> "none"]
    /\ should_fail \in BOOLEAN
    /\ eff_initial = resource
    /\ eff_last = NoMessage

\* initialize of the effector's actor, in the task of spawn_server
EffInitialize ==
    /\ eff_pc = "initialize"
    /\ IF eff_kind = "brightness"
       THEN \* the default initialize
            /\ eff_pc' = "running"
            /\ UNCHANGED <<eff, resource>>
       ELSE IF should_fail
       THEN /\ eff_pc' = "init_failed"
            /\ UNCHANGED <<eff, resource>>
       ELSE /\ eff_pc' = "running"
            /\ IF eff_kind = "dpms"
               THEN \* fetch, then prepare_dpms
                    /\ eff' = [eff EXCEPT !.original_configuration = fetch(resource)]
                    /\ resource' = apply([level |-> Some("On"), timeouts |-> <<0, 0, 0>>],
                                         resource)
               ELSE UNCHANGED <<eff, resource>>
    /\ UNCHANGED <<eff_kind, should_fail, eff_initial, eff_last>>
    /\ UNCHANGED <<icVars, seqVars, envVars, armafVars, sysVars>>

\* handle_message of the effector's actor
EffHandle(payload) ==
    /\ eff_pc = "running"
    /\ LET answer ==
               CASE eff_kind = "brightness" ->
                        brightness_handle_message(payload, eff, resource, should_fail)
                 [] eff_kind = "dpms" ->
                        dpms_handle_message(payload, eff, resource, should_fail)
                 [] eff_kind = "session" ->
                        session_handle_message(payload, eff, resource, should_fail)
                 [] eff_kind = "lock" ->
                        lock_handle_message(payload, eff, resource)
           waits == /\ eff_kind = "lock"
                    /\ payload = "Rollback"
                    /\ update_child_status(eff, resource).status_receiver
       IN  /\ eff' = answer.eff
           /\ resource' = answer.resource
           /\ IF waits
              THEN \* self.status_receiver.take().unwrap().await
                   /\ eff_pc' = "awaiting_locker"
                   /\ eff_last' = [Recorded(payload, answer) EXCEPT !.result = "none"]
              ELSE /\ eff_last' = Recorded(payload, answer)
                   /\ UNCHANGED eff_pc
    /\ UNCHANGED <<eff_kind, should_fail, eff_initial>>
    /\ UNCHANGED <<icVars, seqVars, envVars, armafVars, sysVars>>

\* the watch task of spawn_locker starts the locker command and sets the
\* locked hint, or sends the error of the spawn; a Rollback that awaits the
\* task is answered with that error
LockerStarts(spawned) ==
    /\ resource.locker = "spawning"
    /\ resource' = IF spawned
                   THEN [resource EXCEPT !.locker = "running", !.locked_hint = TRUE]
                   ELSE [resource EXCEPT !.locker = "failed"]
    /\ IF eff_pc = "awaiting_locker" /\ ~spawned
       THEN /\ eff_pc' = "running"
            /\ eff_last' = [eff_last EXCEPT !.result = "err"]
       ELSE UNCHANGED <<eff_pc, eff_last>>
    /\ UNCHANGED <<eff_kind, eff, should_fail, eff_initial>>
    /\ UNCHANGED <<icVars, seqVars, envVars, armafVars, sysVars>>

\* the locker quits: its watch task clears the locked hint and sends the
\* result of process.wait(); a Rollback that awaits it is answered
LockerQuits(waited) ==
    /\ resource.locker = "running"
    /\ resource' = [resource EXCEPT !.locker = "exited", !.locked_hint = FALSE]
    /\ IF eff_pc = "awaiting_locker"
       THEN /\ eff_pc' = "running"
            /\ eff_last' = [eff_last EXCEPT !.result = IF waited THEN "ok" ELSE "err"]
       ELSE UNCHANGED <<eff_pc, eff_last>>
    /\ UNCHANGED <<eff_kind, eff, should_fail, eff_initial>>
    /\ UNCHANGED <<icVars, seqVars, envVars, armafVars, sysVars>>

\* set_failure_mode of the controller
SetFailureMode(fail) ==
    /\ eff_pc \in {"initialize", "running"}
    /\ should_fail # fail
    /\ should_fail' = fail
    /\ UNCHANGED <<eff_kind, eff_pc, eff, resource, eff_initial, eff_last>>
    /\ UNCHANGED <<icVars, seqVars, envVars, armafVars, sysVars>>

\* every port is dropped: tear_down of the effector's actor
EffTearDown ==
    /\ eff_pc = "running"
    /\ eff_pc' = "stopped"
    /\ LET restores ==
               \/ eff_kind = "brightness" /\ eff.original_brightness.some
               \/ eff_kind = "dpms"
           restored ==
               IF eff_kind = "brightness"
               THEN [resource EXCEPT !.brightness = eff.original_brightness.val]
               ELSE apply(eff.original_configuration, resource)
       IN  /\ resource' = IF restores /\ ~should_fail THEN restored ELSE resource
           /\ eff_last' = Recorded("tear_down",
                                   Answer(eff, resource',
                                          IF restores /\ should_fail THEN "err" ELSE "ok",
                                          0))
    /\ UNCHANGED <<eff_kind, eff, should_fail, eff_initial>>
    /\ UNCHANGED <<icVars, seqVars, envVars, armafVars, sysVars>>

EffHandles == \E payload \in EffectorMessages : EffHandle(payload)
LockerStartsOrFails == \E spawned \in BOOLEAN : LockerStarts(spawned)
LockerQuitsOrFails == \E waited \in BOOLEAN : LockerQuits(waited)
SetsFailureMode == \E fail \in BOOLEAN : SetFailureMode(fail)

NextEff ==
    \/ EffInitialize
    \/ EffHandles
    \/ LockerStartsOrFails
    \/ LockerQuitsOrFails
    \/ SetsFailureMode
    \/ EffTearDown

SpecEff == InitEff /\ [][NextEff]_vars

\* ---------------------------------------------------------------------------
\* Properties of the effectors

Refused == eff_last.result = "err" /\ ~eff_last.changed

\* C28: every effector answers an Execute at its maximum depth and a Rollback
\* at depth 0 with an error and changes nothing, and the depth it reports is
\* between 0 and the maximum.
C28_DepthBounds ==
    /\ eff_last.payload = "Execute" /\ eff_last.depth_before = max_depth(eff_kind) => Refused
    /\ eff_last.payload = "Rollback" /\ eff_last.depth_before = 0 => Refused
    /\ eff_pc = "running" => depth(eff_kind, eff, resource) \in 0..max_depth(eff_kind)
    /\ eff_last.payload = "CurrentlyAppliedEffects" /\ eff_last.result = "ok" =>
           eff_last.reply \in 0..max_depth(eff_kind)

\* what holds of the code: the brightness effector refuses both, the lock
\* effector refuses the Execute, and every reported depth is 0 or 1
DepthBoundsEnforced ==
    /\ eff_kind \in {"brightness", "lock"} /\ eff_last.payload = "Execute"
       /\ eff_last.depth_before = max_depth(eff_kind) => Refused
    /\ eff_kind = "brightness" /\ eff_last.payload = "Rollback"
       /\ eff_last.depth_before = 0 => Refused
    /\ eff_pc = "running" => depth(eff_kind, eff, resource) \in 0..max_depth(eff_kind)
    /\ eff_last.payload = "CurrentlyAppliedEffects" /\ eff_last.result = "ok" =>
           eff_last.reply \in 0..max_depth(eff_kind)

\* the DPMS effector has answered a Rollback at depth 0 with Ok(0)
RollbackAtZeroAccepted ==
    /\ eff_kind = "dpms"
    /\ eff_last.payload = "Rollback"
    /\ eff_last.depth_before = 0
    /\ eff_last.result = "ok"

\* what the getters of the controllers show of the resource
Observable(r) ==
    [brightness |-> r.brightness, level |-> get_dpms_level(r), timeouts |-> r.dpms_timeouts]

TornDownOk ==
    /\ eff_pc = "stopped"
    /\ eff_last.payload = "tear_down"
    /\ eff_last.result = "ok"

BrightnessRestored ==
    /\ TornDownOk
    /\ eff_kind = "brightness"
    /\ eff.original_brightness.some
    /\ eff_last.changed
    /\ resource.brightness = eff_initial.brightness

\* the session effector has no tear_down: the idle hint stays set
IdleHintLeft ==
    /\ eff_pc = "stopped"
    /\ eff_kind = "session"
    /\ resource.idle_hint

ControllerFailed(payload, at_depth) ==
    /\ eff_kind \in {"brightness", "dpms"}
    /\ eff_last.payload = payload
    /\ eff_last.failing
    /\ eff_last.depth_before = at_depth

AfterFailedExecute ==
    /\ eff_kind \in {"brightness", "dpms"}
    /\ eff_last.payload = "Rollback"
    /\ eff_last.depth_before = 0
    /\ eff_last.previous = [payload |-> "Execute", result |-> "err", failing |-> TRUE]

\* C30: an Execute during which the brightness or display-server call fails
\* is answered with an error and leaves the depth at 0, and the Rollback that
\* follows it is refused; a Rollback during which the call fails is answered
\* with an error and leaves the depth at 1 and the saved original in place.
C30_FailureKeepsDepth ==
    /\ ControllerFailed("Execute", 0) => Refused
    /\ AfterFailedExecute => Refused
    /\ ControllerFailed("Rollback", 1) => Refused

\* what holds of the code: a request during which the call fails is answered
\* with an error and changes neither the effector nor the resource; the
\* brightness effector refuses the Rollback that follows a failed Execute
FailureChangesNothing ==
    /\ ControllerFailed("Execute", 0) => Refused
    /\ ControllerFailed("Rollback", 1) => Refused
    /\ AfterFailedExecute /\ eff_kind = "brightness" => Refused

\* the display server failed during the Execute of the DPMS effector and has
\* recovered: the Rollback that followed was answered Ok(0)
RollbackAfterFailureAccepted ==
    /\ eff_kind = "dpms"
    /\ AfterFailedExecute
    /\ ~eff_last.failing
    /\ eff_last.result = "ok"
    /\ eff_last.reply = 0

\* the brightness controller failed during a Rollback: the display stays
\* dimmed and the original brightness is kept
RollbackFailureKeepsOriginal ==
    /\ eff_kind = "brightness"
    /\ ControllerFailed("Rollback", 1)
    /\ Refused
    /\ eff.original_brightness = Some(eff_initial.brightness)
    /\ resource.brightness = dimmed(eff_initial.brightness)

\* the locked hint of the session goes from true to false in this step
HintCleared == resource.locked_hint /\ ~resource'.locked_hint

LockerLifecycle ==
    eff_kind = "lock" =>
        /\ resource.locked_hint <=> resource.locker = "running"
        /\ eff_last.payload = "Execute" /\ eff_last.result = "ok" =>
               eff_last.reply = 1 /\ eff_last.depth_before = 0
        /\ eff_last.payload = "Execute" /\ eff_last.depth_before = 1 => Refused
        /\ eff_last.payload = "Rollback" /\ eff_last.result = "ok" =>
               /\ eff_last.reply = 0
               /\ ~watching(resource)
               /\ ~resource.locked_hint
        /\ eff_pc = "awaiting_locker" =>
               /\ eff_last.payload = "Rollback" /\ eff_last.result = "none"
               /\ watching(resource)

Subscribers == 1..MaxSubscribers

\* ticks the clock may run on after a preparing-to-sleep signal
MaxTime == MaxDelayTime + 2

\* receiver_count of the broadcast channel
receiver_count(subs) == Cardinality({s \in Subscribers : subs[s] # "dropped"})

\* tokio::time::sleep(self.max_delay_time), created at time t
arm(t, max_delay) == t + max_delay

timeout_deadline_per_turn(armed, t, max_delay) == arm(t, max_delay)

\* tokio::pin!(timeout) before the loop: the same timer is polled in every
\* turn of the loop of wait_for_confirmations
timeout_deadline(armed, t, max_delay) == armed

\* the timer has fired
expired(t, armed) == t >= armed

\* a clone of the confirmation sender is alive: in the broadcast slot of a
\* subscriber that has not received it, or in the hands of one that has
SenderAlive(subs) == \E s \in Subscribers : subs[s] \in {"pending", "notified"}

InitSleep ==
    /\ IcAbsent
    /\ SeqAbsent
    /\ EnvAbsent
    /\ ArmafAbsent
    /\ EffAbsent
    /\ InvAbsent
    /\ MainAbsent
    /\ ss_pc = "main_loop"
    /\ delay_handle = FALSE
    /\ max_delay_time \in 0..MaxDelayTime
    /\ subscribers \in [Subscribers -> {"subscribed", "dropped"}]
    /\ confirmations = 0
    /\ expected_confirmations = 0
    /\ received_confirmations = 0
    /\ now = 0
    /\ deadline = 0
    /\ should_terminate = FALSE
    /\ ss_result = "none"

\* wait_for_sleep up to its select: set_up_delay_inhibitor
set_up_delay_inhibitor(ok) ==
    /\ ss_pc = "main_loop"
    /\ IF ok
       THEN /\ delay_handle' = TRUE
            /\ ss_pc' = "wait_for_sleep"
            /\ ss_result' = "none"
       ELSE /\ delay_handle' = FALSE
            /\ ss_pc' = "wait_for_wake_up"
            /\ ss_result' = "InhibitorCreationError"
    /\ UNCHANGED <<max_delay_time, subscribers, confirmations, expected_confirmations,
                   received_confirmations, now, deadline, should_terminate>>
    /\ UNCHANGED <<icVars, seqVars, envVars, armafVars, effVars, invVars, mainVars>>

\* wait_for_sleep: the PrepareForSleep signal arrives; start = FALSE is a
\* resume signal.  mpsc::channel(0) panics, and the unwinding task drops
\* _delay_handle
wait_for_sleep(start) ==
    /\ ss_pc = "wait_for_sleep"
    /\ IF ~start
       THEN /\ ss_pc' = "main_loop"
            /\ delay_handle' = FALSE
            /\ ss_result' = "StateError"
            /\ UNCHANGED <<subscribers, confirmations, expected_confirmations,
                           received_confirmations, now, deadline>>
       ELSE LET subscriber_count == receiver_count(subscribers)
            IN  /\ now' = 0
                /\ ss_result' = "notified"
                /\ expected_confirmations' = subscriber_count
                /\ received_confirmations' = 0
                /\ confirmations' = 0
                /\ IF subscriber_count = 0
                   THEN /\ ss_pc' = "panicked"
                        /\ delay_handle' = FALSE
                        /\ UNCHANGED <<subscribers, deadline>>
                   ELSE /\ ss_pc' = "wait_for_confirmations"
                        /\ subscribers' =
                               [s \in Subscribers |->
                                   IF subscribers[s] = "dropped" THEN "dropped"
                                   ELSE "pending"]
                        /\ deadline' = arm(0, max_delay_time)
                        /\ UNCHANGED delay_handle
    /\ UNCHANGED <<max_delay_time, should_terminate>>
    /\ UNCHANGED <<icVars, seqVars, envVars, armafVars, effVars, invVars, mainVars>>

\* wait_for_confirmations returns: wait_for_sleep returns with it and drops
\* _delay_handle, main_loop goes on to wait_for_wake_up
Confirmed(result) ==
    /\ ss_pc' = "wait_for_wake_up"
    /\ delay_handle' = FALSE
    /\ ss_result' = result

\* wait_for_confirmations, receiver.recv() yields a confirmation
ReceiveConfirmation ==
    /\ ss_pc = "wait_for_confirmations"
    /\ confirmations > 0
    /\ confirmations' = confirmations - 1
    /\ received_confirmations' = received_confirmations + 1
    /\ IF received_confirmations + 1 < expected_confirmations
       THEN /\ deadline' = timeout_deadline(deadline, now, max_delay_time)
            /\ UNCHANGED <<ss_pc, delay_handle, ss_result>>
       ELSE /\ Confirmed("Ok")
            /\ UNCHANGED deadline
    /\ UNCHANGED <<max_delay_time, subscribers, expected_confirmations, now,
                   should_terminate>>
    /\ UNCHANGED <<icVars, seqVars, envVars, armafVars, effVars, invVars, mainVars>>

\* wait_for_confirmations, receiver.recv() yields None
ConfirmationsClosed ==
    /\ ss_pc = "wait_for_confirmations"
    /\ confirmations = 0
    /\ ~SenderAlive(subscribers)
    /\ Confirmed("Ok")
    /\ UNCHANGED <<max_delay_time, subscribers, confirmations, expected_confirmations,
                   received_confirmations, now, deadline, should_terminate>>
    /\ UNCHANGED <<icVars, seqVars, envVars, armafVars, effVars, invVars, mainVars>>

\* wait_for_confirmations, the timeout fires
DownstreamTimeout ==
    /\ ss_pc = "wait_for_confirmations"
    /\ expired(now, deadline)
    /\ Confirmed("DownstreamTimeout")
    /\ UNCHANGED <<max_delay_time, subscribers, confirmations, expected_confirmations,
                   received_confirmations, now, deadline, should_terminate>>
    /\ UNCHANGED <<icVars, seqVars, envVars, armafVars, effVars, invVars, mainVars>>

\* wait_for_wake_up: the next signal of the stream; after a resume signal
\* WokenUp is broadcast and the subscribers are back to listening
wait_for_wake_up(start) ==
    /\ ss_pc = "wait_for_wake_up"
    /\ ss_pc' = "main_loop"
    /\ ss_result' = IF start THEN "StateError" ELSE "none"
    /\ subscribers' = IF start THEN subscribers
                      ELSE [s \in Subscribers |->
                               IF subscribers[s] = "dropped" THEN "dropped"
                               ELSE "subscribed"]
    /\ UNCHANGED <<delay_handle, max_delay_time, confirmations, expected_confirmations,
                   received_confirmations, now, deadline, should_terminate>>
    /\ UNCHANGED <<icVars, seqVars, envVars, armafVars, effVars, invVars, mainVars>>

\* the Handle of the sensor is dropped (main, await_shutdown)
SleepHandleDropped ==
    /\ ss_pc \notin {"terminated", "panicked"}
    /\ ~should_terminate
    /\ should_terminate' = TRUE
    /\ UNCHANGED <<ss_pc, delay_handle, max_delay_time, subscribers, confirmations,
                   expected_confirmations, received_confirmations, now, deadline,
                   ss_result>>
    /\ UNCHANGED <<icVars, seqVars, envVars, armafVars, effVars, invVars, mainVars>>

\* should_terminate() in one of the three selects: HandleClosed
SleepTerminates ==
    /\ should_terminate
    /\ ss_pc \in {"wait_for_sleep", "wait_for_confirmations", "wait_for_wake_up"}
    /\ ss_pc' = "terminated"
    /\ delay_handle' = FALSE
    /\ ss_result' = "HandleClosed"
    /\ UNCHANGED <<max_delay_time, subscribers, confirmations, expected_confirmations,
                   received_confirmations, now, deadline, should_terminate>>
    /\ UNCHANGED <<icVars, seqVars, envVars, armafVars, effVars, invVars, mainVars>>

\* a subscriber: SleepController::main_loop receives GoingToSleep
\* ("received"), handle_sleep sends ReadyToSleep and drops the sender
\* ("acknowledges"), the subscriber's task ends ("dropped"), or
\* sender.subscribe() adds a receiver ("subscribes")
Subscriber(s, does) ==
    /\ ss_pc \notin {"terminated", "panicked"}
    /\ CASE does = "receives" ->
               /\ subscribers[s] = "pending"
               /\ subscribers' = [subscribers EXCEPT ![s] = "notified"]
               /\ UNCHANGED confirmations
         [] does = "acknowledges" ->
               /\ subscribers[s] = "notified"
               /\ subscribers' = [subscribers EXCEPT ![s] = "acknowledged"]
               /\ confirmations' = IF ss_pc = "wait_for_confirmations"
                                   THEN confirmations + 1 ELSE confirmations
         [] does = "dropped" ->
               /\ subscribers[s] # "dropped"
               /\ subscribers' = [subscribers EXCEPT ![s] = "dropped"]
               /\ UNCHANGED confirmations
         [] does = "subscribes" ->
               /\ subscribers[s] = "dropped"
               /\ subscribers' = [subscribers EXCEPT ![s] = "subscribed"]
               /\ UNCHANGED confirmations
    /\ UNCHANGED <<ss_pc, delay_handle, max_delay_time, expected_confirmations,
                   received_confirmations, now, deadline, should_terminate, ss_result>>
    /\ UNCHANGED <<icVars, seqVars, envVars, armafVars, effVars, invVars, mainVars>>

\* one tick passes while the sensor waits for confirmations; a timer that
\* has fired is served before the clock moves on
SleepTick ==
    /\ ss_pc = "wait_for_confirmations"
    /\ now < MaxTime
    /\ ~expired(now, deadline)
    /\ now' = now + 1
    /\ UNCHANGED <<ss_pc, delay_handle, max_delay_time, subscribers, confirmations,
                   expected_confirmations, received_confirmations, deadline,
                   should_terminate, ss_result>>
    /\ UNCHANGED <<icVars, seqVars, envVars, armafVars, effVars, invVars, mainVars>>

SetsUpDelayInhibitor == \E ok \in BOOLEAN : set_up_delay_inhibitor(ok)
PrepareForSleep == \E start \in BOOLEAN : wait_for_sleep(start)
Resumes == \E start \in BOOLEAN : wait_for_wake_up(start)
SubscriberSteps ==
    \E s \in Subscribers, does \in {"receives", "acknowledges", "dropped", "subscribes"} :
        Subscriber(s, does)

NextSleep ==
    \/ SetsUpDelayInhibitor
    \/ PrepareForSleep
    \/ ReceiveConfirmation
    \/ ConfirmationsClosed
    \/ DownstreamTimeout
    \/ Resumes
    \/ SleepHandleDropped
    \/ SleepTerminates
    \/ SubscriberSteps
    \/ SleepTick

SpecSleep == InitSleep /\ [][NextSleep]_vars

\* ---------------------------------------------------------------------------
\* Properties of the sleep sensor

\* the sensor holds the inhibitor after a notification only while it waits
\* for a confirmation that can still come, and never longer than max_delay
DelayBounded ==
    /\ ss_pc = "wait_for_confirmations" =>
           /\ delay_handle
           /\ received_confirmations < expected_confirmations
           /\ now <= max_delay_time
    /\ ss_pc \in {"wait_for_wake_up", "terminated", "panicked"} => ~delay_handle

\* the last signal was a preparing-to-sleep notification and the sensor's
\* handle has not ended the wait
AfterNotification == ss_result \in {"notified", "Ok", "DownstreamTimeout"}

\* C32: after a preparing-to-sleep notification the sensor holds the delay
\* inhibitor only while confirmations are missing and the channel is open,
\* never later than max_delay after the notification, and once it has
\* released the inhibitor it waits for the resume signal
C32_BoundedDelay ==
    /\ DelayBounded
    /\ AfterNotification /\ ss_pc # "wait_for_confirmations" =>
           ss_pc = "wait_for_wake_up"

\* a notification found no subscriber: mpsc::channel(0) ended the sensor
NotifiedWithoutSubscriber ==
    /\ ss_pc = "panicked"
    /\ ss_result = "notified"
    /\ expected_confirmations = 0

\* a subscriber never acknowledged and the timeout released the inhibitor
SilentSubscriberTimedOut ==
    /\ ss_result = "DownstreamTimeout"
    /\ ss_pc = "wait_for_wake_up"
    /\ now = max_delay_time
    /\ max_delay_time > 0
    /\ \E s \in Subscribers : subscribers[s] = "notified"

\* ---------------------------------------------------------------------------
\* The effector inventory (src/src/control/effector_inventory.rs)

\* get_known_effector_names
KnownEffectorNames == {"brightness", "dpms", "session", "sleep", "lock"}

\* the names a GetEffectorPort may carry
RequestedNames == KnownEffectorNames \cup {"unknown"}

\* spawn_effector: started tells whether the effector's spawn succeeds
spawn_effector(effector_name, started) ==
    IF effector_name \in KnownEffectorNames /\ started THEN "ok" ELSE "err"

\* the port of the n-th effector actor spawned
PortOf(effector_name, n) == [name |-> effector_name, actor |-> n]

inventory_handle_message_respawn(effector_name, started, stored, actors) ==
    IF spawn_effector(effector_name, started) = "ok"
    THEN LET port == PortOf(effector_name, Len(actors) + 1)
         IN  [result |-> "ok", port |-> Some(port), spawned |-> TRUE,
              stored |-> [stored EXCEPT ![effector_name] = Some(port)],
              actors |-> Append(actors, effector_name)]
    ELSE [result |-> "err", port |-> None, spawned |-> TRUE,
          stored |-> stored, actors |-> actors]

\* EffectorInventory::handle_message
inventory_handle_message(effector_name, started, stored, actors) ==
    IF stored[effector_name].some
    THEN [result |-> "ok", port |-> stored[effector_name], spawned |-> FALSE,
          stored |-> stored, actors |-> actors]
    ELSE IF spawn_effector(effector_name, started) = "ok"
    THEN LET port == PortOf(effector_name, Len(actors) + 1)
         IN  [result |-> "ok", port |-> Some(port), spawned |-> TRUE,
              stored |-> [stored EXCEPT ![effector_name] = Some(port)],
              actors |-> Append(actors, effector_name)]
    ELSE [result |-> "err", port |-> None, spawned |-> TRUE,
          stored |-> stored, actors |-> actors]

\* EffectorInventory::new, spawn_server
InitInv ==
    /\ IcAbsent
    /\ SeqAbsent
    /\ EnvAbsent
    /\ ArmafAbsent
    /\ EffAbsent
    /\ SleepAbsent
    /\ MainAbsent
    /\ inv_pc = "running"
    /\ running_effectors = [name \in RequestedNames |-> None]
    /\ spawned_effectors = <<>>
    /\ spawn_attempts = 0
    /\ inv_last = [name |-> "none", result |-> "none", port |-> None,
                   spawned |-> FALSE, stored_before |-> None]

\* a GetEffectorPort is handled
GetEffector(effector_name, started) ==
    /\ inv_pc = "running"
    /\ LET answer == inventory_handle_message(effector_name, started,
                                              running_effectors, spawned_effectors)
       IN  /\ answer.spawned => spawn_attempts < MaxSpawns
           /\ running_effectors' = answer.stored
           /\ spawned_effectors' = answer.actors
           /\ spawn_attempts' = IF answer.spawned THEN spawn_attempts + 1
                                ELSE spawn_attempts
           /\ inv_last' = [name |-> effector_name, result |-> answer.result,
                           port |-> answer.port, spawned |-> answer.spawned,
                           stored_before |-> running_effectors[effector_name]]
    /\ UNCHANGED inv_pc
    /\ UNCHANGED <<icVars, seqVars, envVars, armafVars, effVars, sleepVars, mainVars>>

\* every port of the inventory is dropped: tear_down drains the map and
\* awaits the shutdown of every effector
InventoryTearDown ==
    /\ inv_pc = "running"
    /\ inv_pc' = "stopped"
    /\ running_effectors' = [name \in RequestedNames |-> None]
    /\ UNCHANGED <<spawned_effectors, spawn_attempts, inv_last>>
    /\ UNCHANGED <<icVars, seqVars, envVars, armafVars, effVars, sleepVars, mainVars>>

GetsEffector ==
    \E effector_name \in RequestedNames, started \in BOOLEAN :
        GetEffector(effector_name, started)

NextInv ==
    \/ GetsEffector
    \/ InventoryTearDown

SpecInv == InitInv /\ [][NextInv]_vars

\* ---------------------------------------------------------------------------
\* Properties of the effector inventory

\* the number of effector actors spawned for a name
SpawnedFor(effector_name) ==
    Cardinality({i \in 1..Len(spawned_effectors) : spawned_effectors[i] = effector_name})

\* C33: the inventory spawns at most one effector actor per name; while it
\* runs it stores a port exactly for the names it has spawned; a Get of a
\* stored name is answered with the stored port and calls no spawn; a Get
\* that spawns stores the new port and answers with it; a Get whose spawn
\* fails is answered with the error and stores nothing
C33_OneEffectorPerName ==
    /\ \A name \in RequestedNames :
           /\ SpawnedFor(name) <= 1
           /\ inv_pc = "running" =>
                  (running_effectors[name].some <=> SpawnedFor(name) = 1)
    /\ inv_last.name # "none" =>
           /\ inv_last.spawned <=> ~inv_last.stored_before.some
           /\ inv_last.stored_before.some =>
                  inv_last.result = "ok" /\ inv_last.port = inv_last.stored_before
           /\ inv_pc = "running" /\ inv_last.result = "ok" =>
                  inv_last.port = running_effectors[inv_last.name]
           /\ inv_pc = "running" /\ inv_last.result = "err" =>
                  /\ ~running_effectors[inv_last.name].some
                  /\ SpawnedFor(inv_last.name) = 0

\* an effector was spawned by the first Get for its name after a failed
\* one, and the last Get was answered with the stored port
C33_Witness ==
    /\ inv_pc = "running"
    /\ inv_last.result = "ok"
    /\ ~inv_last.spawned
    /\ spawn_attempts >= 2
    /\ Len(spawned_effectors) = 1
    /\ inv_last.port = Some(PortOf(inv_last.name, 1))

\* ---------------------------------------------------------------------------
\* The shutdown of the program (src/src/main.rs): main, the tasks it spawned
\* and the ports they hold

Tasks ==
    {"environment_controller", "sequencer", "idleness_controller", "sleep_controller",
     "sleep_sensor", "dbus_controller", "inventory"}

\* the effectors of the model: session is in every schedule, lock is asked
\* for by main
ShutdownEffectors == {"session", "lock"}

ShutdownOrder_inventory_first ==
    <<"inventory", "environment_controller", "sleep_controller", "sleep_sensor",
      "dbus_controller">>

\* main: the await_shutdown calls after the signal, in order
ShutdownOrder ==
    <<"environment_controller", "sleep_controller", "sleep_sensor", "dbus_controller",
      "inventory">>

\* main has called await_shutdown on the task's handle or port
handle_dropped(task, pc) ==
    \E k \in 1..Len(ShutdownOrder) : k <= pc /\ ShutdownOrder[k] = task

\* a task ends: everything it owns is dropped
drop_ports(holder, ports) == [e \in DOMAIN ports |-> ports[e] \ {holder}]

InitMain ==
    /\ IcAbsent
    /\ SeqAbsent
    /\ EnvAbsent
    /\ ArmafAbsent
    /\ EffAbsent
    /\ SleepAbsent
    /\ InvAbsent
    /\ main_pc = 0
    /\ tasks = [t \in Tasks |-> "running"]
    /\ inventory_ports = {"main", "environment_controller"}
    /\ \E lock_spawned \in BOOLEAN, lock_in_schedule \in BOOLEAN :
           /\ lock_in_schedule => lock_spawned
           /\ effector_actors =
                  [e \in ShutdownEffectors |->
                      IF e = "lock" /\ ~lock_spawned THEN "absent" ELSE "running"]
           /\ effector_ports =
                  [e \in ShutdownEffectors |->
                      IF e = "session"
                      THEN {"inventory", "environment_controller", "idleness_controller"}
                      ELSE IF ~lock_spawned THEN {}
                      ELSE {"inventory", "sleep_controller", "dbus_controller"}
                           \cup (IF lock_in_schedule
                                 THEN {"environment_controller", "idleness_controller"}
                                 ELSE {})]
    /\ draining = "none"

\* main: ctrl_c() returns and the first await_shutdown drops its handle
CtrlC ==
    /\ main_pc = 0
    /\ main_pc' = 1
    /\ inventory_ports' = IF ShutdownOrder[1] = "inventory"
                          THEN inventory_ports \ {"main"} ELSE inventory_ports
    /\ UNCHANGED <<tasks, effector_ports, effector_actors, draining>>
    /\ UNCHANGED <<icVars, seqVars, envVars, armafVars, effVars, sleepVars, invVars>>

\* main: an await_shutdown returns, the next one drops its handle
AwaitShutdown ==
    /\ main_pc \in 1..Len(ShutdownOrder)
    /\ tasks[ShutdownOrder[main_pc]] = "stopped"
    /\ main_pc' = main_pc + 1
    /\ inventory_ports' =
           IF main_pc < Len(ShutdownOrder) /\ ShutdownOrder[main_pc + 1] = "inventory"
           THEN inventory_ports \ {"main"} ELSE inventory_ports
    /\ UNCHANGED <<tasks, effector_ports, effector_actors, draining>>
    /\ UNCHANGED <<icVars, seqVars, envVars, armafVars, effVars, sleepVars, invVars>>

\* EnvironmentController::main_loop: should_terminate(), or a change of the
\* schedule type; either way the sequencer's port is dropped and awaited
EnvironmentControllerLeaves(terminate) ==
    /\ tasks["environment_controller"] = "running"
    /\ terminate => handle_dropped("environment_controller", main_pc)
    /\ tasks' = [tasks EXCEPT !["environment_controller"] =
                                  IF terminate THEN "terminating" ELSE "swapping"]
    /\ UNCHANGED <<main_pc, inventory_ports, effector_ports, effector_actors, draining>>
    /\ UNCHANGED <<icVars, seqVars, envVars, armafVars, effVars, sleepVars, invVars>>

\* Sequencer: the command port is closed, tear_down awaits the child
SequencerTearsDown ==
    /\ tasks["sequencer"] = "running"
    /\ tasks["environment_controller"] \in {"swapping", "terminating"}
    /\ tasks' = [tasks EXCEPT !["sequencer"] = "terminating"]
    /\ UNCHANGED <<main_pc, inventory_ports, effector_ports, effector_actors, draining>>
    /\ UNCHANGED <<icVars, seqVars, envVars, armafVars, effVars, sleepVars, invVars>>

\* the idleness controller's actor ends and drops its action bunches
IdlenessControllerStops ==
    /\ tasks["idleness_controller"] = "running"
    /\ tasks["sequencer"] = "terminating"
    /\ tasks' = [tasks EXCEPT !["idleness_controller"] = "stopped"]
    /\ effector_ports' = drop_ports("idleness_controller", effector_ports)
    /\ UNCHANGED <<main_pc, inventory_ports, effector_actors, draining>>
    /\ UNCHANGED <<icVars, seqVars, envVars, armafVars, effVars, sleepVars, invVars>>

\* Sequencer::tear_down returns: child_port.await_shutdown() has returned
SequencerStops ==
    /\ tasks["sequencer"] = "terminating"
    /\ tasks["idleness_controller"] = "stopped"
    /\ tasks' = [tasks EXCEPT !["sequencer"] = "stopped"]
    /\ UNCHANGED <<main_pc, inventory_ports, effector_ports, effector_actors, draining>>
    /\ UNCHANGED <<icVars, seqVars, envVars, armafVars, effVars, sleepVars, invVars>>

\* EnvironmentController::main_loop after sequencer_port.await_shutdown():
\* it returns when terminating; in a swap it spawns the next pair, and
\* returns the error when that fails
EnvironmentControllerGoesOn(spawned) ==
    /\ tasks["environment_controller"] \in {"swapping", "terminating"}
    /\ tasks["sequencer"] = "stopped"
    /\ IF tasks["environment_controller"] = "swapping" /\ spawned
       THEN /\ tasks' = [tasks EXCEPT !["environment_controller"] = "running",
                                      !["sequencer"] = "running",
                                      !["idleness_controller"] = "running"]
            /\ effector_ports' =
                   [e \in ShutdownEffectors |->
                       IF "environment_controller" \in effector_ports[e]
                       THEN effector_ports[e] \cup {"idleness_controller"}
                       ELSE effector_ports[e]]
            /\ UNCHANGED inventory_ports
       ELSE /\ tasks' = [tasks EXCEPT !["environment_controller"] = "stopped"]
            /\ effector_ports' = drop_ports("environment_controller", effector_ports)
            /\ inventory_ports' = inventory_ports \ {"environment_controller"}
    /\ UNCHANGED <<main_pc, effector_actors, draining>>
    /\ UNCHANGED <<icVars, seqVars, envVars, armafVars, effVars, sleepVars, invVars>>

\* the sleep controller, the sleep sensor or the D-Bus controller ends: its
\* handle was dropped, or (the first two) its loop returned on an error
TaskEnds(task) ==
    /\ task \in {"sleep_controller", "sleep_sensor", "dbus_controller"}
    /\ tasks[task] = "running"
    /\ handle_dropped(task, main_pc) \/ task # "dbus_controller"
    /\ tasks' = [tasks EXCEPT ![task] = "stopped"]
    /\ effector_ports' = drop_ports(task, effector_ports)
    /\ UNCHANGED <<main_pc, inventory_ports, effector_actors, draining>>
    /\ UNCHANGED <<icVars, seqVars, envVars, armafVars, effVars, sleepVars, invVars>>

\* every port of the inventory is dropped: its tear_down starts
InventoryLeaves ==
    /\ tasks["inventory"] = "running"
    /\ inventory_ports = {}
    /\ tasks' = [tasks EXCEPT !["inventory"] = "terminating"]
    /\ UNCHANGED <<main_pc, inventory_ports, effector_ports, effector_actors, draining>>
    /\ UNCHANGED <<icVars, seqVars, envVars, armafVars, effVars, sleepVars, invVars>>

\* EffectorInventory::tear_down: port.await_shutdown() of the next effector
InventoryDrains(e) ==
    /\ tasks["inventory"] = "terminating"
    /\ draining = "none"
    /\ "inventory" \in effector_ports[e]
    /\ effector_ports' = [effector_ports EXCEPT ![e] = @ \ {"inventory"}]
    /\ draining' = e
    /\ UNCHANGED <<main_pc, tasks, inventory_ports, effector_actors>>
    /\ UNCHANGED <<icVars, seqVars, envVars, armafVars, effVars, sleepVars, invVars>>

\* the last port of an effector is dropped: its actor tears down
EffectorTornDown(e) ==
    /\ effector_actors[e] = "running"
    /\ effector_ports[e] = {}
    /\ effector_actors' = [effector_actors EXCEPT ![e] = "torn_down"]
    /\ draining' = IF draining = e THEN "none" ELSE draining
    /\ UNCHANGED <<main_pc, tasks, inventory_ports, effector_ports>>
    /\ UNCHANGED <<icVars, seqVars, envVars, armafVars, effVars, sleepVars, invVars>>

\* EffectorInventory::tear_down returns
InventoryStops ==
    /\ tasks["inventory"] = "terminating"
    /\ draining = "none"
    /\ \A e \in ShutdownEffectors : "inventory" \notin effector_ports[e]
    /\ tasks' = [tasks EXCEPT !["inventory"] = "stopped"]
    /\ UNCHANGED <<main_pc, inventory_ports, effector_ports, effector_actors, draining>>
    /\ UNCHANGED <<icVars, seqVars, envVars, armafVars, effVars, sleepVars, invVars>>

NextMain ==
    \/ CtrlC
    \/ AwaitShutdown
    \/ \E terminate \in BOOLEAN : EnvironmentControllerLeaves(terminate)
    \/ SequencerTearsDown
    \/ IdlenessControllerStops
    \/ SequencerStops
    \/ \E spawned \in BOOLEAN : EnvironmentControllerGoesOn(spawned)
    \/ \E task \in Tasks : TaskEnds(task)
    \/ InventoryLeaves
    \/ \E e \in ShutdownEffectors : InventoryDrains(e)
    \/ \E e \in ShutdownEffectors : EffectorTornDown(e)
    \/ InventoryStops

SpecMain == InitMain /\ [][NextMain]_vars

\* ---------------------------------------------------------------------------
\* Properties of the shutdown

\* the tasks that hold effector ports and send Execute or Rollback
Controllers ==
    {"environment_controller", "idleness_controller", "sleep_controller",
     "dbus_controller"}

\* C34: the environment controller has stopped only when the sequencer has,
\* and the sequencer only when the idleness controller has; the inventory
\* leaves its loop only when the environment controller, the sleep
\* controller, the sleep sensor and the D-Bus controller have stopped; an
\* effector is torn down only when the inventory has left its loop and no
\* task that holds effector ports is alive
C34_ShutdownOrder ==
    /\ tasks["environment_controller"] = "stopped" => tasks["sequencer"] = "stopped"
    /\ tasks["sequencer"] = "stopped" => tasks["idleness_controller"] = "stopped"
    /\ tasks["inventory"] # "running" =>
           \A t \in {"environment_controller", "sleep_controller", "sleep_sensor",
                     "dbus_controller"} : tasks[t] = "stopped"
    /\ \A e \in ShutdownEffectors :
           effector_actors[e] = "torn_down" =>
               /\ tasks["inventory"] # "running"
               /\ \A t \in Controllers : tasks[t] = "stopped"

\* the shutdown has completed and both effectors were torn down by the
\* inventory
C34_Witness ==
    /\ main_pc = Len(ShutdownOrder) + 1
    /\ tasks["inventory"] = "stopped"
    /\ \A e \in ShutdownEffectors : effector_actors[e] = "torn_down"

\* ---------------------------------------------------------------------------
\* The schedule swap across the environment controller, the sequencer and
\* the idleness controller

\* durations_to_timeouts: the offset of every delay from the one before it
durations_to_timeouts(durations) ==
    [i \in 1..Len(durations) |->
        IF i = 1 THEN durations[1]
        ELSE IF durations[i] >= durations[i - 1] THEN durations[i] - durations[i - 1]
        ELSE 0]

\* main_loop: the timeouts the sequencer of a sequence is given
timeouts_of(seq) == durations_to_timeouts([i \in 1..Len(seq) |-> seq[i].timeout])

\* the sequencer on timeouts t can answer GetRunningTime with r while it is
\* at position p: p was entered since_change seconds ago and the sleep for
\* the next position has not fired
Reportable(t, p, r) ==
    \E since_change \in 0..MaxRunning :
        /\ p \in 1..Len(t)
        /\ p < Len(t) => since_change < t[p + 1]
        /\ r = get_running_time(t, p, since_change)

\* C36: in a swap the number of bunches passed_bunch_count finds executed in
\* the outgoing sequence is the position at which its sequencer, running on
\* durations_to_timeouts of the delays, can have reported the running time
C36_CountAgrees ==
    swap.some =>
        \A p \in 1..Len(swap.val.old_sequence) :
            Reportable(timeouts_of(swap.val.old_sequence), p, swap.val.running_time) =>
                passed_bunch_count(swap.val.old_sequence, swap.val.running_time)[1] = p

\* a swap at the moment the outgoing sequencer entered its second position:
\* one bunch is counted
SecondBunchNotCounted ==
    /\ swap.some
    /\ Len(swap.val.old_sequence) = 2
    /\ Reportable(timeouts_of(swap.val.old_sequence), 2, swap.val.running_time)
    /\ passed_bunch_count(swap.val.old_sequence, swap.val.running_time)[1] = 1

\* handle_idleness over the actions of the bunches a controller applied, every
\* Execute answered Ok: the ports of the steps it leaves applied
left_applied(actions) ==
    ApplyFrom(actions, [i \in 1..Len(actions) |-> TRUE], 1,
              [stack |-> <<>>, immediate |-> <<>>, log |-> <<>>, skip |-> {}]).stack

\* the Rollback messages the new controller sends on its first Awakened when
\* no Idle was applied before it: its own stack is empty
first_wakeup_rollbacks(context) ==
    LET rollback == context.reconciliation_bunches.rollback
    IN  wakeup_rollbacks(IF rollback.some THEN rollback.val ELSE <<>>, <<>>)

-----------------------------------------------------------------------------
(* The reconciliation execute list and the first Awakened, under SpecIC *)

\* C38: once the controller has handled an Awakened no reconciliation execute
\* list is pending: an Idle handled after it finds none for its inhibition
\* check, and if applied sends Execute to the actions of its bunch only
C38_CarryOverDiscarded ==
    lifetime.awakened =>
        /\ ~ExecutePending
        /\ last.msg = "Idle" => last.execute = None
        /\ last.msg = "Idle" /\ last.ok =>
               Len(ExecutedNames(SentByLast)) = Len(action_bunches[last.bunch + 1])

\* an execute list that no Idle consumed outlived an Awakened: the Idle
\* applied for bunch 0 after it sent Execute to the list's actions as well
CarriedPastAwakened ==
    /\ lifetime.awakened
    /\ last.msg = "Idle" /\ last.ok
    /\ last.bunch = 0
    /\ last.execute.some
    /\ Len(ExecutedNames(SentByLast))
           = Len(last.execute.val) + Len(action_bunches[1])

-----------------------------------------------------------------------------
(* The starting positions of the sequencer, under SpecSeq *)

\* C39: the sequencer does not fail at a position of its sequence: started at
\* any p in 0..n, n included, with any host state, neither initialize nor the
\* head of main_loop panics
C39_EveryStartAccepted ==
    ~(seq_pc = "panicked" /\ current_position \in 0..Len(timeout_sequence))

\* a sequencer constructed at p = n over a sequence that is not empty has
\* panicked before its first iteration
StartAtEndPanics ==
    /\ seq_pc = "panicked"
    /\ Len(timeout_sequence) > 0
    /\ current_position = Len(timeout_sequence)
    /\ step = NoIteration
    /\ accepted_position = current_position
    /\ pending = None

-----------------------------------------------------------------------------
(* Shutdown of the sequencer, under FairSeq *)

\* The sequencer's task is polled whenever it can make progress, the child
\* and the display server answer the requests made to them, and select! picks
\* among its ready branches at random, so that a branch that is ready again
\* and again is taken.  The host and the owner of the command port are free.
FairSeq ==
    /\ SpecSeq
    /\ WF_vars(Spawn)
    /\ WF_vars(MainLoop)
    /\ WF_vars(SleepFired)
    /\ WF_vars(HostChanged)
    /\ SF_vars(CommandClosed)
    /\ WF_vars(ChildResponds)
    /\ WF_vars(ForceWaits)
    /\ WF_vars(TearDown)
    /\ WF_vars(ChildTerminates)
    /\ WF_vars(TornDown)

\* C40: once the command port of a running sequencer is dropped, the
\* sequencer leaves its loop and finishes tear_down, whatever the host does
C40_ShutdownCompletes == (command_port = "dropped") ~> (seq_pc = "stopped")

\* the command port is dropped while the sequencer waits in force_activity
\* after a failed call to the display server, and no state change is pending
StuckInForceActivity ==
    /\ seq_pc = "force_wait"
    /\ command_port = "dropped"
    /\ ~host_changed
    /\ pending.forced = "failed"

-----------------------------------------------------------------------------
(* A wake-up during a schedule swap, under SpecSeq *)

\* The sequencer of a swap with a running time r > 0 that starts at p > 0
\* has a child built with the outgoing controller's steps as its list to roll
\* back, and that child unwinds the list at once only at bunch 0: the steps
\* stay applied until the child is sent Awakened.  While the initial position
\* is dirty every Awakened finds position = ds_position, so none was sent.
OutgoingStepsApplied == current_position > 0 /\ initial_position_dirty

\* C35: a wake-up of the host that the new sequencer finds on its channel
\* while steps of the outgoing controller are still applied is not lost: the
\* iteration that takes the notification sends Awakened to the child
C35_WakeupNotLost ==
    [][seq_pc = "select" /\ host_changed /\ ~host_changed'
         /\ host_state = "Awakened" /\ OutgoingStepsApplied
         => seq_pc' = "await_child" /\ pending'.msg = "Awakened"]_vars

\* the sequencer has taken the Awakened notification as unexpected and rests
\* in its select!: the host is Awakened, nothing is pending, nothing was sent
LostWakeup ==
    /\ seq_pc = "select"
    /\ host_state = "Awakened"
    /\ ~host_changed
    /\ OutgoingStepsApplied
    /\ step = Iteration("host", "Awakened", current_position, TRUE, "none", "none", "no")

=============================================================================
